---- MODULE Spec2Model ----
(***************************************************************************)
(* Model of the Bitcoin adapter's blockchain state engine                  *)
(* (src/src/blockchainstate.rs): the header tree, the tip sequence and the *)
(* block cache, with one action per public operation.                      *)
(*                                                                         *)
(* A header is identified with its block hash (a collision-free digest of  *)
(* the header), so header values and block hashes are the same small       *)
(* integers; what a header carries (prev_blockhash, work, whether the      *)
(* validator accepts it) is given by the operators below.                  *)
(***************************************************************************)
EXTENDS Integers, Sequences, FiniteSets, TLC

\* ------------------------------------------------------------------ bounds
\* Headers 1..NumHeaders chain from genesis as two branches; two more headers
\* are malformed (see OrphanHeader, TimeZeroHeader).
NumHeaders == 3
\* Longest `headers` slice handed to add_headers.
MaxBatch == 3
\* Most blocks held by the block cache at once (the cache itself is unbounded).
MaxBlocks == 2
\* Longest hash list handed to prune_blocks.
MaxPrune == 1
\* Longest straight chain the locator specification grows header by header.
MaxChain == 15
\* Two lengths the locator specification extends the straight chain to with
\* one add_headers call: at MidChain the 22nd round of locator_hashes records
\* genesis itself, at LongChain all 22 rounds find the parents they walk
\* back to.
MidChain == 16390
LongChain == 32774

\* ------------------------------------------------- the universe of headers
\* genesis_block(network).header.block_hash()
GenesisHash == 0
\* BlockHash::default(): the hash of no header
DefaultHash == -1

\* A header whose prev_blockhash is BlockHash::default()
OrphanHeader == NumHeaders + 1
\* A header with time = 0 chained to header 1: rejected by the validator
TimeZeroHeader == NumHeaders + 2

Headers == 1..(NumHeaders + 2)
Hashes == Headers \cup {GenesisHash, DefaultHash}

\* The k-th header (k >= 1) of a straight chain from genesis, a third branch
\* of the tree, as long as a specification cares to make it
ChainHeader(k) == TimeZeroHeader + k

\* header.block_hash()
block_hash(header) == header

\* header.prev_blockhash: headers 1 and 2 chain to genesis and header h > 2
\* to h - 2, so the tree has the two branches 0 - 1 - 3 - 5 ... and
\* 0 - 2 - 4 - 6 ...; the headers past TimeZeroHeader chain one to the next.
\* The genesis header's prev_blockhash is the all-zero hash.
prev_blockhash(header) ==
    IF header = GenesisHash THEN DefaultHash
    ELSE IF header = OrphanHeader THEN DefaultHash
    ELSE IF header = TimeZeroHeader THEN 1
    ELSE IF header = ChainHeader(1) THEN GenesisHash
    ELSE IF header > ChainHeader(1) THEN header - 1
    ELSE IF header <= 2 THEN GenesisHash
    ELSE header - 2

\* header.work(): derived from the header's compact difficulty. Header 2
\* carries twice the work of the others, so that branches of different
\* lengths can tie and a shorter branch can overtake.
header_work(header) == IF header = 2 THEN 2 ELSE 1

VARIABLES
    headers,      \* header_cache.headers : block hash -> HeaderNode
    tips,         \* tips : Vec<Tip>
    block_cache,  \* block_cache : block hash -> Block
    ret,          \* the call in progress: its arguments and returned value
    transactions, \* TransactionManager.transactions : LinkedHashMap<Txid, TransactionInfo>
    available_connections,  \* what channel.available_connections() returns
    now,          \* what SystemTime::now() returns
    inv_sent      \* per cached entry and peer: the INVs that listed it so far

tx_vars == <<transactions, available_connections, now, inv_sent>>

vars == <<headers, tips, block_cache, ret, transactions,
          available_connections, now, inv_sent>>

NoCall == [op |-> "none"]
None == [type |-> "None"]

\* ------------------------------------------------------------- HeaderCache
\* HeaderCache::new: the store holds the genesis node alone
HeaderCache_new ==
    GenesisHash :> [header |-> GenesisHash, height |-> 0,
                    work |-> header_work(GenesisHash), children |-> <<>>]

\* HeaderCache::contains
contains(hs, hash) == hash \in DOMAIN hs

\* BlockchainState::get_cached_header / HeaderCache::get
get_cached_header(hs, hash) == IF hash \in DOMAIN hs THEN hs[hash] ELSE None

\* The new HeaderNode at its parent's height
NewNode_parent_height(hs, header) ==
    [header |-> header,
     height |-> hs[prev_blockhash(header)].height,
     work |-> hs[prev_blockhash(header)].work + header_work(header),
     children |-> <<>>]

\* The new HeaderNode without its own header's work
NewNode_parent_work(hs, header) ==
    [header |-> header,
     height |-> hs[prev_blockhash(header)].height + 1,
     work |-> hs[prev_blockhash(header)].work,
     children |-> <<>>]

\* The new HeaderNode of HeaderCache::insert
NewNode(hs, header) ==
    [header |-> header,
     height |-> hs[prev_blockhash(header)].height + 1,
     work |-> hs[prev_blockhash(header)].work + header_work(header),
     children |-> <<>>]

\* HeaderCache::insert without the push onto the parent's children
HeaderCache_insert_unlinked(hs, header) ==
    IF contains(hs, block_hash(header))
    THEN [res |-> "AlreadyExists", headers |-> hs]
    ELSE IF ~contains(hs, prev_blockhash(header))
    THEN [res |-> "NotFound", headers |-> hs]
    ELSE [res |-> "Ok",
          headers |-> (block_hash(header) :> NewNode(hs, header)) @@ hs]

\* HeaderCache::insert pushing the child at the front of the parent's children
HeaderCache_insert_prepends(hs, header) ==
    IF contains(hs, block_hash(header))
    THEN [res |-> "AlreadyExists", headers |-> hs]
    ELSE IF ~contains(hs, prev_blockhash(header))
    THEN [res |-> "NotFound", headers |-> hs]
    ELSE LET parent == prev_blockhash(header)
             linked == [hs EXCEPT ![parent].children =
                            <<block_hash(header)>> \o @]
         IN [res |-> "Ok",
             headers |-> (block_hash(header) :> NewNode(hs, header)) @@ linked]

\* HeaderCache::insert adding the header's work to the parent node as well
HeaderCache_insert_parent_work(hs, header) ==
    IF contains(hs, block_hash(header))
    THEN [res |-> "AlreadyExists", headers |-> hs]
    ELSE IF ~contains(hs, prev_blockhash(header))
    THEN [res |-> "NotFound", headers |-> hs]
    ELSE LET parent == prev_blockhash(header)
             linked == [hs EXCEPT ![parent].children =
                            Append(@, block_hash(header)),
                        ![parent].work = @ + header_work(header)]
         IN [res |-> "Ok",
             headers |-> (block_hash(header) :> NewNode(hs, header)) @@ linked]

\* HeaderCache::insert: [res, headers]
HeaderCache_insert(hs, header) ==
    IF contains(hs, block_hash(header))
    THEN [res |-> "AlreadyExists", headers |-> hs]
    ELSE IF ~contains(hs, prev_blockhash(header))
    THEN [res |-> "NotFound", headers |-> hs]
    ELSE LET parent == prev_blockhash(header)
             linked == [hs EXCEPT ![parent].children =
                            Append(@, block_hash(header))]
         IN [res |-> "Ok",
             headers |-> (block_hash(header) :> NewNode(hs, header)) @@ linked]

\* --------------------------------------------------------- BlockchainState
\* BlockchainState::get_active_chain_tip: &self.tips[0]
get_active_chain_tip(tps) == tps[1]

\* impl HeaderStore for BlockchainState: get_height
get_height(tps) == get_active_chain_tip(tps).height

\* The header-validation collaborator, as the tests pin it down: a header
\* whose previous header is not in the store is PrevHeaderNotFound, a header
\* with a bad timestamp is rejected too.
validate_header(hs, header) ==
    IF get_cached_header(hs, prev_blockhash(header)) = None
    THEN "PrevHeaderNotFound"
    ELSE IF header = TimeZeroHeader THEN "HeaderIsOld"
    ELSE "Ok"

Tip(node) == [header |-> node.header, height |-> node.height, work |-> node.work]

\* self.tips.iter().position(|tip| tip.header.block_hash() == prev_hash): 0 is None
position(tps, prev_hash) ==
    IF \E i \in 1..Len(tps) : block_hash(tps[i].header) = prev_hash
    THEN CHOOSE i \in 1..Len(tps) :
            /\ block_hash(tps[i].header) = prev_hash
            /\ \A j \in 1..(i - 1) : block_hash(tps[j].header) # prev_hash
    ELSE 0

\* The tip update of add_header without the search for the parent's tip
update_tips_always_push(tps, prev_hash, tip) == Append(tps, tip)

\* The tip update of add_header
update_tips(tps, prev_hash, tip) ==
    LET idx == position(tps, prev_hash)
    IN IF idx # 0 THEN [tps EXCEPT ![idx] = tip] ELSE Append(tps, tip)

\* add_header with the store's own parent check ahead of the validator
add_header_insert_first(hs, tps, header) ==
    LET hash == block_hash(header)
        valid == validate_header(hs, header)
        ins == HeaderCache_insert(hs, header)
    IN IF get_cached_header(hs, hash) # None
       THEN [res |-> "HeaderAlreadyExists", err |-> None, node |-> hs[hash],
             headers |-> hs, tips |-> tps]
       ELSE IF ins.res = "NotFound"
       THEN [res |-> "Err",
             err |-> [type |-> "PrevHeaderNotCached",
                      hash |-> prev_blockhash(header)],
             node |-> None, headers |-> hs, tips |-> tps]
       ELSE IF valid # "Ok"
       THEN [res |-> "Err",
             err |-> [type |-> "InvalidHeader", hash |-> hash, cause |-> valid],
             node |-> None, headers |-> hs, tips |-> tps]
       ELSE [res |-> "HeaderAdded", err |-> None, node |-> ins.headers[hash],
             headers |-> ins.headers,
             tips |-> update_tips(tps, prev_blockhash(header),
                                  Tip(ins.headers[hash]))]

\* BlockchainState::add_header: [res, err, node, headers, tips]
add_header(hs, tps, header) ==
    LET hash == block_hash(header)
        valid == validate_header(hs, header)
        ins == HeaderCache_insert(hs, header)
    IN IF get_cached_header(hs, hash) # None
       THEN [res |-> "HeaderAlreadyExists", err |-> None, node |-> hs[hash],
             headers |-> hs, tips |-> tps]
       ELSE IF valid # "Ok"
       THEN [res |-> "Err",
             err |-> [type |-> "InvalidHeader", hash |-> hash, cause |-> valid],
             node |-> None, headers |-> hs, tips |-> tps]
       ELSE IF ins.res = "NotFound"
       THEN [res |-> "Err",
             err |-> [type |-> "PrevHeaderNotCached",
                      hash |-> prev_blockhash(header)],
             node |-> None, headers |-> hs, tips |-> tps]
       ELSE IF ins.res = "AlreadyExists"
       THEN [res |-> "HeaderAlreadyExists", err |-> None, node |-> hs[hash],
             headers |-> hs, tips |-> tps]
       ELSE [res |-> "HeaderAdded", err |-> None, node |-> ins.headers[hash],
             headers |-> ins.headers,
             tips |-> update_tips(tps, prev_blockhash(header),
                                  Tip(ins.headers[hash]))]

\* add_headers / add_block without the sort of the tips
sort_skipped(tps) == {tps}

\* self.tips.sort_unstable_by(|a, b| b.work.cmp(&a.work)): every arrangement
\* of the tips by non-increasing work; the order of equal-work tips is not
\* specified by an unstable sort.
sort_unstable_by(tps) ==
    LET n == Len(tps)
        perms == {p \in [1..n -> 1..n] : \A i, j \in 1..n : i # j => p[i] # p[j]}
    IN {t \in {[i \in 1..n |-> tps[p[i]]] : p \in perms} :
            \A i \in 1..(n - 1) : t[i].work >= t[i + 1].work}

\* add_headers carrying on after an error, keeping the first error
RECURSIVE add_headers_past_errors(_, _, _, _, _, _)
add_headers_past_errors(hs, tps, hdrs, i, added, steps) ==
    IF i > Len(hdrs)
    THEN [headers |-> hs, tips |-> tps, added |-> added, err |-> None,
          steps |-> steps]
    ELSE LET r == add_header(hs, tps, hdrs[i])
             step == [header |-> hdrs[i], res |-> r.res,
                      before |-> tps, after |-> r.tips]
             rest == add_headers_past_errors(r.headers, r.tips, hdrs, i + 1,
                        IF r.res = "HeaderAdded"
                        THEN Append(added, Tip(r.node)) ELSE added,
                        Append(steps, step))
         IN IF r.res = "Err" THEN [rest EXCEPT !.err = r.err] ELSE rest

\* The fold of add_headers over headers[i..]: stops at the first error.
\* `added` collects the nodes of HeaderAdded results; `steps` records, for
\* every header processed, the tips before and after its add_header.
RECURSIVE add_headers_from(_, _, _, _, _, _)
add_headers_from(hs, tps, hdrs, i, added, steps) ==
    IF i > Len(hdrs)
    THEN [headers |-> hs, tips |-> tps, added |-> added, err |-> None,
          steps |-> steps]
    ELSE LET r == add_header(hs, tps, hdrs[i])
             step == [header |-> hdrs[i], res |-> r.res,
                      before |-> tps, after |-> r.tips]
         IN IF r.res = "Err"
            THEN [headers |-> r.headers, tips |-> r.tips, added |-> added,
                  err |-> r.err, steps |-> Append(steps, step)]
            ELSE add_headers_from(r.headers, r.tips, hdrs, i + 1,
                    IF r.res = "HeaderAdded"
                    THEN Append(added, Tip(r.node)) ELSE added,
                    Append(steps, step))

\* The slices add_headers is called with
Batches == UNION {[1..n -> Headers] : n \in 0..MaxBatch}

\* Block: its header and what its transactions hash to. "empty": no
\* transactions, compute_merkle_root() is None; "matching": the computed
\* root is the header's merkle_root; "mismatching": it is not.
Blocks == [header : Headers, txdata : {"empty", "matching", "mismatching"}]

\* compute_merkle_root() taken to return a root for every block
compute_merkle_root_always_some(block) == TRUE

\* block.compute_merkle_root().is_some()
compute_merkle_root_is_some(block) == block.txdata # "empty"

\* block.check_merkle_root()
check_merkle_root(block) == block.txdata = "matching"

\* self.block_cache.remove(hash) for one hash
remove(cache, hash) == [h \in (DOMAIN cache) \ {hash} |-> cache[h]]

\* prune_blocks emptying the cache whenever it is given a hash
prune_blocks_all(cache, block_hashes) ==
    IF block_hashes = <<>> THEN cache ELSE [h \in {} |-> None]

\* BlockchainState::prune_blocks as a function of the cache
RECURSIVE prune_blocks(_, _)
prune_blocks(cache, block_hashes) ==
    IF block_hashes = <<>> THEN cache
    ELSE prune_blocks(remove(cache, Head(block_hashes)), Tail(block_hashes))

\* A sequence listing the members of a finite set, in some order
RECURSIVE SeqOf(_)
SeqOf(S) ==
    IF S = {} THEN <<>>
    ELSE LET x == CHOOSE y \in S : TRUE IN <<x>> \o SeqOf(S \ {x})

\* prune_blocks_below_height collecting the blocks at the height as well
hashes_up_to_height(hs, cache, height) ==
    {b \in DOMAIN cache :
        height >= (IF get_cached_header(hs, b) = None THEN 0 ELSE hs[b].height)}

\* The hashes prune_blocks_below_height collects
hashes_below_height(hs, cache, height) ==
    {b \in DOMAIN cache :
        height > (IF get_cached_header(hs, b) = None THEN 0 ELSE hs[b].height)}

EmptyCache == [h \in {} |-> None]

\* BlockchainState::get_block: the cached block, or None
get_block(cache, hash) == IF hash \in DOMAIN cache THEN cache[hash] ELSE None

\* self.block_cache.insert(block_hash, block) with the rule of std's
\* HashMap::insert turned round: a block already cached under the hash stays
insert_keep_existing(cache, hash, block) == cache @@ (hash :> block)

\* self.block_cache.insert(block_hash, block): the block replaces whatever
\* was cached under the hash
insert(cache, hash, block) == (hash :> block) @@ cache

\* ------------------------------------------------------------ locator_hashes
\* u32::saturating_mul. locator_hashes doubles step, which starts at 1, in
\* 15 of its 22 rounds, so the product is at most 2^15 and never reaches
\* u32::MAX, where the multiplication would saturate.
saturating_mul(a, b) == a * b

\* The inner loop `for _j in 0..step` of locator_hashes: current_header
\* after n lookups of prev_blockhash in the store, or found = FALSE when one
\* of the lookups finds no header. The n lookups are made as two halves, which
\* keeps the depth of the evaluation logarithmic in n.
RECURSIVE walk_back(_, _, _)
walk_back(hs, current_header, n) ==
    IF n = 0 THEN [found |-> TRUE, header |-> current_header]
    ELSE IF n = 1
    THEN LET cached == get_cached_header(hs, prev_blockhash(current_header))
         IN IF cached # None
            THEN [found |-> TRUE, header |-> cached.header]
            ELSE [found |-> FALSE, header |-> current_header]
    ELSE LET half == walk_back(hs, current_header, n \div 2)
         IN IF half.found
            THEN walk_back(hs, half.header, n - (n \div 2))
            ELSE half

\* locator_hashes doubling the step from the round i = 6 on
RECURSIVE locator_hashes_early_doubling(_, _, _, _, _)
locator_hashes_early_doubling(hs, current_header, step, i, hashes) ==
    IF i = 22
    THEN IF hashes[Len(hashes)] # GenesisHash
         THEN Append(hashes, GenesisHash) ELSE hashes
    ELSE LET current_hash == block_hash(current_header)
             last_hash == current_hash
             pushed == Append(hashes, current_hash)
             walked == walk_back(hs, current_header, step)
         IN IF ~walked.found
            THEN IF last_hash # GenesisHash
                 THEN Append(pushed, GenesisHash) ELSE pushed
            ELSE locator_hashes_early_doubling(hs, walked.header,
                    IF i >= 6 THEN saturating_mul(step, 2) ELSE step,
                    i + 1, pushed)

\* locator_hashes pushing the genesis hash whenever a parent is missing,
\* without comparing last_hash
RECURSIVE locator_hashes_unchecked_push(_, _, _, _, _)
locator_hashes_unchecked_push(hs, current_header, step, i, hashes) ==
    IF i = 22
    THEN IF hashes[Len(hashes)] # GenesisHash
         THEN Append(hashes, GenesisHash) ELSE hashes
    ELSE LET current_hash == block_hash(current_header)
             pushed == Append(hashes, current_hash)
             walked == walk_back(hs, current_header, step)
         IN IF ~walked.found
            THEN Append(pushed, GenesisHash)
            ELSE locator_hashes_unchecked_push(hs, walked.header,
                    IF i >= 7 THEN saturating_mul(step, 2) ELSE step,
                    i + 1, pushed)

\* The outer loop `for i in 0..22` of locator_hashes from round i on, and
\* what follows it; last_hash is the hash pushed last
RECURSIVE locator_hashes_from(_, _, _, _, _)
locator_hashes_from(hs, current_header, step, i, hashes) ==
    IF i = 22
    THEN IF hashes[Len(hashes)] # GenesisHash
         THEN Append(hashes, GenesisHash) ELSE hashes
    ELSE LET current_hash == block_hash(current_header)
             last_hash == current_hash
             pushed == Append(hashes, current_hash)
             walked == walk_back(hs, current_header, step)
         IN IF ~walked.found
            THEN IF last_hash # GenesisHash
                 THEN Append(pushed, GenesisHash) ELSE pushed
            ELSE locator_hashes_from(hs, walked.header,
                    IF i >= 7 THEN saturating_mul(step, 2) ELSE step,
                    i + 1, pushed)

\* BlockchainState::locator_hashes
locator_hashes(hs, tps) ==
    locator_hashes_from(hs, get_active_chain_tip(tps).header, 1, 0, <<>>)

Init ==
    /\ headers = HeaderCache_new
    /\ tips = <<Tip(HeaderCache_new[GenesisHash])>>
    /\ block_cache = EmptyCache
    /\ ret = NoCall
    /\ transactions = <<>>
    /\ available_connections = <<>>
    /\ now = 0
    /\ inv_sent = <<>>

\* BlockchainState::add_headers
AddHeaders ==
    /\ ret = NoCall
    /\ UNCHANGED tx_vars
    /\ \E hdrs \in Batches :
        LET r == add_headers_from(headers, tips, hdrs, 1, <<>>, <<>>)
        IN \E sorted \in sort_unstable_by(r.tips) :
            /\ headers' = r.headers
            /\ tips' = sorted
            /\ ret' = [op |-> "add_headers", headers |-> hdrs,
                       added |-> r.added, err |-> r.err, steps |-> r.steps]
    /\ UNCHANGED block_cache

\* BlockchainState::add_headers, called again with the slice of the
\* add_headers call that has just returned
AddHeadersAgain ==
    /\ ret.op = "add_headers"
    /\ UNCHANGED tx_vars
    /\ LET r == add_headers_from(headers, tips, ret.headers, 1, <<>>, <<>>)
       IN \E sorted \in sort_unstable_by(r.tips) :
            /\ headers' = r.headers
            /\ tips' = sorted
            /\ ret' = [op |-> "add_headers", headers |-> ret.headers,
                       added |-> r.added, err |-> r.err, steps |-> r.steps]
    /\ UNCHANGED block_cache

\* BlockchainState::add_block sorting the tips and caching the block before
\* it looks at the result of add_header
AddBlock_caches_first ==
    /\ ret = NoCall
    /\ UNCHANGED tx_vars
    /\ \E block \in Blocks :
        LET block_hash_ == block_hash(block.header)
            r == add_header(headers, tips, block.header)
            step == [header |-> block.header, res |-> r.res,
                     before |-> tips, after |-> r.tips]
        IN IF compute_merkle_root_is_some(block) /\ ~check_merkle_root(block)
           THEN /\ ret' = [op |-> "add_block", block |-> block,
                           result |-> [type |-> "Err",
                               err |-> [type |-> "InvalidMerkleRoot",
                                        hash |-> block_hash_]],
                           steps |-> <<>>, replaced |-> None]
                /\ UNCHANGED <<headers, tips, block_cache>>
           ELSE /\ Cardinality(DOMAIN block_cache \cup {block_hash_}) <= MaxBlocks
                /\ \E sorted \in sort_unstable_by(r.tips) :
                    /\ headers' = r.headers
                    /\ tips' = sorted
                /\ block_cache' = insert(block_cache, block_hash_, block)
                /\ ret' = [op |-> "add_block", block |-> block,
                           result |->
                               IF r.res = "Err"
                               THEN [type |-> "Err",
                                     err |-> [type |-> "Header", err |-> r.err]]
                               ELSE [type |-> "Ok", height |-> r.node.height],
                           steps |-> <<step>>,
                           replaced |-> get_block(block_cache, block_hash_)]

\* BlockchainState::add_block
AddBlock ==
    /\ ret = NoCall
    /\ UNCHANGED tx_vars
    /\ \E block \in Blocks :
        LET block_hash_ == block_hash(block.header)
            r == add_header(headers, tips, block.header)
            step == [header |-> block.header, res |-> r.res,
                     before |-> tips, after |-> r.tips]
        IN IF compute_merkle_root_is_some(block) /\ ~check_merkle_root(block)
           THEN /\ ret' = [op |-> "add_block", block |-> block,
                           result |-> [type |-> "Err",
                               err |-> [type |-> "InvalidMerkleRoot",
                                        hash |-> block_hash_]],
                           steps |-> <<>>, replaced |-> None]
                /\ UNCHANGED <<headers, tips, block_cache>>
           ELSE IF r.res = "Err"
           THEN /\ ret' = [op |-> "add_block", block |-> block,
                           result |-> [type |-> "Err",
                               err |-> [type |-> "Header", err |-> r.err]],
                           steps |-> <<step>>, replaced |-> None]
                /\ UNCHANGED <<headers, tips, block_cache>>
           ELSE /\ Cardinality(DOMAIN block_cache \cup {block_hash_}) <= MaxBlocks
                /\ \E sorted \in sort_unstable_by(r.tips) :
                    /\ headers' = r.headers
                    /\ tips' = sorted
                /\ block_cache' = insert(block_cache, block_hash_, block)
                /\ ret' = [op |-> "add_block", block |-> block,
                           result |-> [type |-> "Ok", height |-> r.node.height],
                           steps |-> <<step>>,
                           replaced |-> get_block(block_cache, block_hash_)]

\* BlockchainState::prune_blocks
PruneBlocks ==
    /\ ret = NoCall
    /\ UNCHANGED tx_vars
    /\ \E block_hashes \in UNION {[1..n -> Hashes] : n \in 0..MaxPrune} :
        /\ block_cache' = prune_blocks(block_cache, block_hashes)
        /\ ret' = [op |-> "prune_blocks", block_hashes |-> block_hashes,
                   removed |-> {block_hashes[i] : i \in DOMAIN block_hashes}
                                   \cap DOMAIN block_cache]
    /\ UNCHANGED <<headers, tips>>

\* BlockchainState::prune_blocks_below_height
PruneBlocksBelowHeight ==
    /\ ret = NoCall
    /\ UNCHANGED tx_vars
    /\ \E height \in 0..NumHeaders :
        /\ block_cache' = prune_blocks(block_cache,
                SeqOf(hashes_below_height(headers, block_cache, height)))
        /\ ret' = [op |-> "prune_blocks_below_height", height |-> height,
                   removed |-> hashes_below_height(headers, block_cache,
                                                   height)]
    /\ UNCHANGED <<headers, tips>>

\* BlockchainState::clear_blocks
ClearBlocks ==
    /\ ret = NoCall
    /\ UNCHANGED tx_vars
    /\ block_cache' = EmptyCache
    /\ ret' = [op |-> "clear_blocks"]
    /\ UNCHANGED <<headers, tips>>

\* The caller takes the returned value; the state is ready for the next call.
Return ==
    /\ ret # NoCall
    /\ UNCHANGED tx_vars
    /\ ret' = NoCall
    /\ UNCHANGED <<headers, tips, block_cache>>

Next ==
    \/ AddHeaders
    \/ AddHeadersAgain
    \/ AddBlock
    \/ PruneBlocks
    \/ PruneBlocksBelowHeight
    \/ ClearBlocks
    \/ Return

Spec == Init /\ [][Next]_vars

\* ------------------------------------------- the locator specification
\* The headers handed to add_headers: those of Spec and the first MaxChain
\* headers of the straight chain
LocatorHeaders == Headers \cup {ChainHeader(k) : k \in 1..MaxChain}

\* What add_headers makes of the store and the tips when the store's straight
\* chain ends at header MaxChain and the slice is the chain's headers
\* MaxChain + 1 .. n: each header is new and valid, becomes the only child of
\* the header before it and takes that header's place among the tips. The
\* result of the fold is written in closed form, the slice being too long to
\* fold over.
add_chain(hs, tps, n) ==
    LET last == ChainHeader(MaxChain)
        node(h) == [header |-> h,
                    height |-> hs[last].height + (h - last),
                    work |-> hs[last].work + (h - last) * header_work(h),
                    children |-> IF h = ChainHeader(n) THEN <<>>
                                 ELSE <<block_hash(h + 1)>>]
        store == [h \in DOMAIN hs \cup
                        {ChainHeader(k) : k \in (MaxChain + 1)..n} |->
                    IF h = last
                    THEN [hs[h] EXCEPT !.children =
                              Append(@, block_hash(ChainHeader(MaxChain + 1)))]
                    ELSE IF h \in DOMAIN hs THEN hs[h] ELSE node(h)]
    IN [headers |-> store,
        tips |-> [tps EXCEPT ![position(tps, block_hash(last))] =
                      Tip(store[ChainHeader(n)])]]

\* BlockchainState::add_headers with a slice of one header; the calls are
\* followed up to the extension of the straight chain past MaxChain headers
AddOneHeader ==
    /\ ret = NoCall
    /\ UNCHANGED tx_vars
    /\ ~contains(headers, block_hash(ChainHeader(MaxChain + 1)))
    /\ \E header \in LocatorHeaders :
        LET r == add_headers_from(headers, tips, <<header>>, 1, <<>>, <<>>)
        IN \E sorted \in sort_unstable_by(r.tips) :
            /\ headers' = r.headers
            /\ tips' = sorted
            /\ ret' = [op |-> "add_headers", headers |-> <<header>>,
                       added |-> r.added, err |-> r.err, steps |-> r.steps]
    /\ UNCHANGED block_cache

\* BlockchainState::locator_hashes
LocatorHashes ==
    /\ ret = NoCall
    /\ UNCHANGED tx_vars
    /\ ret' = [op |-> "locator_hashes", hashes |-> locator_hashes(headers, tips)]
    /\ UNCHANGED <<headers, tips, block_cache>>

\* BlockchainState::add_headers with the rest of the straight chain, up to
\* one of the two long lengths, when the store holds the chain's first
\* MaxChain headers and no fork
AddChainHeaders ==
    /\ ret = NoCall
    /\ UNCHANGED tx_vars
    /\ contains(headers, block_hash(ChainHeader(MaxChain)))
    /\ ~contains(headers, block_hash(ChainHeader(MaxChain + 1)))
    /\ Len(tips) = 1
    /\ \E n \in {MidChain, LongChain} :
        LET r == add_chain(headers, tips, n)
        IN \E sorted \in sort_unstable_by(r.tips) :
            /\ headers' = r.headers
            /\ tips' = sorted
            /\ ret' = [op |-> "add_headers", from |-> MaxChain + 1, to |-> n]
    /\ UNCHANGED block_cache

LocatorNext ==
    \/ AddOneHeader
    \/ AddChainHeaders
    \/ LocatorHashes
    \/ Return

SpecLocator == Init /\ [][LocatorNext]_vars

\* ============================================ forks inside one add_headers
\* add_headers with slices in which a fork from genesis grows past the
\* branch that leads the tips: the headers 1, 2 and 3 of the tree and the
\* first MaxFork headers of the straight chain, a third branch.
MaxFork == 3
ForkHeaders == {1, 2, 3} \cup {ChainHeader(k) : k \in 1..MaxFork}
ForkBatches == UNION {[1..n -> ForkHeaders] : n \in 1..MaxBatch}

\* BlockchainState::add_headers
AddForkHeaders ==
    /\ ret = NoCall
    /\ UNCHANGED tx_vars
    /\ \E hdrs \in ForkBatches :
        LET r == add_headers_from(headers, tips, hdrs, 1, <<>>, <<>>)
        IN \E sorted \in sort_unstable_by(r.tips) :
            /\ headers' = r.headers
            /\ tips' = sorted
            /\ ret' = [op |-> "add_headers", headers |-> hdrs,
                       added |-> r.added, err |-> r.err, steps |-> r.steps]
    /\ UNCHANGED block_cache

ForkNext ==
    \/ AddForkHeaders
    \/ Return

SpecFork == Init /\ [][ForkNext]_vars

\* ================================================= the transaction manager
\* Model of src/src/transaction_manager.rs: the insertion-ordered transaction
\* cache, the INV advertisement of tick and the serving of getdata requests.

\* ---------------------------------------------------- program constants
\* How long a transaction stays in the cache, in seconds.
TX_CACHE_TIMEOUT_PERIOD_SECS == 600
\* Most inventory items of one inv or getdata message.
MAXIMUM_TRANSACTION_PER_INV == 50000
\* Most transactions held by the cache.
TX_CACHE_SIZE == 250

\* ------------------------------------------------------------------ bounds
\* Transactions 1..NumTransactions are sent one by one; 2k-1 and 2k differ in
\* their witness only and so share a txid.
NumTransactions == 3
\* Peer socket addresses 1..NumAddresses.
NumAddresses == 2
\* The clock is followed over 0..MaxPeriods timeout periods.
MaxPeriods == 1
\* Longest inventory of a getdata message that is written out item by item.
MaxGetData == 2
\* Largest cache for which the getdata messages of MAXIMUM_TRANSACTION_PER_INV
\* items and more are followed, at the first instant and with no peer
\* connected.
MaxLongGetDataCache == 1
\* Largest cache from which the loop of TX_CACHE_SIZE calls of
\* send_transaction is followed.
MaxLoopCache == 1
\* Largest cache on which the getdata messages, the clock and the peers'
\* connecting and disconnecting are followed; a larger cache is followed
\* through send_transaction, tick and make_idle.
MaxFollowedCache == 2
\* The INVs counted per entry and peer stop at this number.
MaxInvCount == 2

\* ---------------------------------------------------------------- universe
Transactions == 1..NumTransactions
Addresses == 1..NumAddresses

\* The transaction of the tests' loops: get_transaction() with lock_time = i;
\* get_transaction() itself, transaction 1, has lock_time 0.
transaction_with_lock_time(i) == IF i = 0 THEN 1 ELSE NumTransactions + i

\* Transaction::txid(): a digest of the transaction without its witness.
txid_of(transaction) ==
    IF transaction \in Transactions THEN (transaction + 1) \div 2
    ELSE transaction

\* bitcoin::consensus::serialize: the wire bytes of a transaction, an even
\* number here; odd numbers are bytes that are no transaction.
serialize(transaction) == 2 * transaction

\* bitcoin::consensus::deserialize::<Transaction>
deserialize(raw_tx) ==
    IF raw_tx > 0 /\ raw_tx % 2 = 0
    THEN [type |-> "Ok", transaction |-> raw_tx \div 2]
    ELSE [type |-> "Err"]

\* The byte strings handed to send_transaction one by one.
RawTransactions == {serialize(t) : t \in Transactions} \cup {1}

\* The instants at which SystemTime::now() is read: the start, the ends of
\* the timeout periods counted from it and the second after each.
Instants ==
    {0} \cup {k * TX_CACHE_TIMEOUT_PERIOD_SECS + j :
                 k \in 1..MaxPeriods, j \in 0..1}

\* Inventory::Transaction(txid) and, for the other variants, Inventory::Block
InventoryTransaction(txid) == [kind |-> "Transaction", hash |-> txid]
InventoryBlock(hash) == [kind |-> "Block", hash |-> hash]

\* Command { address: Some(address), message }
Command(address, message) == [address |-> address, message |-> message]
Inv(inventory) == [type |-> "inv", inventory |-> inventory]
Tx(transaction) == [type |-> "tx", transaction |-> transaction]
GetData(inventory) == [type |-> "getdata", inventory |-> inventory]

\* ------------------------------------------------------ the cache's entries
\* An entry that starts out as advertised to every peer
TransactionInfo_new_advertised(transaction, time) ==
    [txid |-> txid_of(transaction),
     transaction |-> transaction,
     advertised |-> Addresses,
     timeout_at |-> time + TX_CACHE_TIMEOUT_PERIOD_SECS]

\* TransactionInfo::new
TransactionInfo_new(transaction, time) ==
    [txid |-> txid_of(transaction),
     transaction |-> transaction,
     advertised |-> {},
     timeout_at |-> time + TX_CACHE_TIMEOUT_PERIOD_SECS]

\* LinkedHashMap::contains_key, get, len; the map is the sequence of its
\* entries in insertion order, each carrying its key
txids(txs) == {txs[i].txid : i \in 1..Len(txs)}
contains_key(txs, txid) == txid \in txids(txs)
index_of(txs, txid) == CHOOSE i \in 1..Len(txs) : txs[i].txid = txid
get(txs, txid) == txs[index_of(txs, txid)]

\* LinkedHashMap::pop_front: removes the oldest entry, if there is one
pop_front(txs) == IF txs = <<>> THEN txs ELSE Tail(txs)

\* The cache that evicts the newest entry
pop_back(txs) == IF txs = <<>> THEN txs ELSE SubSeq(txs, 1, Len(txs) - 1)

\* The map entry API that puts a new entry in front of the others
or_insert_first(txs, transaction, time) ==
    IF contains_key(txs, txid_of(transaction)) THEN txs
    ELSE <<TransactionInfo_new(transaction, time)>> \o txs

\* LinkedHashMap::entry(txid).or_insert_with(|| TransactionInfo::new(..))
or_insert_with(txs, transaction, time) ==
    IF contains_key(txs, txid_of(transaction)) THEN txs
    ELSE Append(txs, TransactionInfo_new(transaction, time))

\* A send_transaction that makes room in a full cache before it looks at
\* the bytes
send_transaction_room_first(txs, raw_tx, time) ==
    LET r == deserialize(raw_tx)
        full == Len(txs) = TX_CACHE_SIZE
        popped == IF full THEN pop_front(txs) ELSE txs
        evicted == SelectSeq(txs, LAMBDA info : info.txid \notin txids(popped))
    IN IF r.type = "Ok"
       THEN [transactions |-> or_insert_with(popped, r.transaction, time),
             evicted |-> evicted,
             inserted |-> ~contains_key(popped, txid_of(r.transaction))]
       ELSE [transactions |-> popped, evicted |-> evicted, inserted |-> FALSE]

\* TransactionManager::send_transaction; with the new cache, the entries
\* pop_front removed and whether or_insert_with made a new entry
send_transaction(txs, raw_tx, time) ==
    LET r == deserialize(raw_tx)
    IN IF r.type = "Ok"
       THEN LET full == Len(txs) = TX_CACHE_SIZE
                popped == IF full THEN pop_front(txs) ELSE txs
            IN [transactions |-> or_insert_with(popped, r.transaction, time),
                evicted |-> LET kept == txids(popped)
                            IN SelectSeq(txs, LAMBDA info :
                                                  info.txid \notin kept),
                inserted |-> ~contains_key(popped, txid_of(r.transaction))]
       ELSE [transactions |-> txs, evicted |-> <<>>, inserted |-> FALSE]

\* The test's loop: send_transaction for the transactions with lock_time
\* from, from + 1, .., to - 1, the first half of them and then the second
\* (the comparison makes TLC evaluate the first half before it starts on the
\* second)
RECURSIVE send_transactions(_, _, _, _)
send_transactions(txs, from, to, time) ==
    IF from >= to THEN txs
    ELSE IF from + 1 = to
    THEN send_transaction(txs, serialize(transaction_with_lock_time(from)),
                          time).transactions
    ELSE LET mid == (from + to) \div 2
             half == send_transactions(txs, from, mid, time)
         IN IF half = txs THEN send_transactions(txs, mid, to, time)
            ELSE send_transactions(half, mid, to, time)

\* A make_idle that removes the oldest entry only
make_idle_oldest(txs) == pop_front(txs)

\* TransactionManager::make_idle
make_idle(txs) == <<>>

\* A reap that removes nothing
reap_nothing(txs, time) == txs

\* A reap that also removes the entries timing out at this very instant
reap_at_deadline(txs, time) ==
    SelectSeq(txs, LAMBDA info : ~(info.timeout_at <= time))

\* TransactionManager::reap
reap(txs, time) == SelectSeq(txs, LAMBDA info : ~(info.timeout_at < time))

\* ------------------------------------------------------------ the channel
\* The channel of one call: the peers that available_connections() lists and
\* the peers for which send fails
Channel(connections, failing) ==
    [available_connections |-> connections, failing |-> failing]

\* Channel::send(command): the command is handed to the channel, which
\* reports a failure when it cannot take it; `sent` are the commands handed
\* over so far
send(sent, command) == Append(sent, command)

\* What Channel::send(command) returns
send_result(channel, command) ==
    IF command.address \in channel.failing THEN [type |-> "Err"]
    ELSE [type |-> "Ok"]

\* A caller that gives up at the first send that fails
ok_or_return(result) == result.type = "Ok"

\* channel.send(..).ok(): the result is made an Option and dropped, so the
\* caller goes on whatever send returned
ok(result) == TRUE

\* ---------------------------------------------------------- advertisement
\* An advertisement that looks at no advertised set
not_advertised_always(info, address) == TRUE

\* !info.advertised.contains(&address)
not_advertised(info, address) == address \notin info.advertised

\* An advertisement that records no peer
insert_nothing(info, address) == info

\* info.advertised.insert(address)
insert_advertised(info, address) ==
    [info EXCEPT !.advertised = @ \cup {address}]

\* An inventory built back to front
push_first(inventory, txid) == <<InventoryTransaction(txid)>> \o inventory

\* inventory.push(Inventory::Transaction(*txid))
push(inventory, txid) == Append(inventory, InventoryTransaction(txid))

\* An advertisement that sends its inventory even when it is empty
is_empty_never(inventory) == FALSE

\* inventory.is_empty()
is_empty(inventory) == inventory = <<>>

\* A flush that comes at two inventory items already
reaches_two(inventory) == Len(inventory) = 2

\* inventory.len() == MAXIMUM_TRANSACTION_PER_INV
reaches_maximum(inventory) == Len(inventory) = MAXIMUM_TRANSACTION_PER_INV

\* The flush of advertise_txids: the inventory goes to every available peer
RECURSIVE flush(_, _, _, _)
flush(sent, channel, k, inventory) ==
    IF k > Len(channel.available_connections) THEN sent
    ELSE LET command == Command(channel.available_connections[k],
                                Inv(inventory))
         IN IF ok(send_result(channel, command))
            THEN flush(send(sent, command), channel, k + 1, inventory)
            ELSE send(sent, command)

\* advertise_txids: the body of `for (txid, info) in
\* self.transactions.iter_mut()` for the i-th entry and the peer `address`
advertise_entry(txs, channel, address, i, inventory, sent) ==
    LET info == txs[i]
        fresh == not_advertised(info, address)
        pushed == IF fresh THEN push(inventory, info.txid) ELSE inventory
        marked == IF fresh
                  THEN [txs EXCEPT ![i] = insert_advertised(info, address)]
                  ELSE txs
    IN IF reaches_maximum(pushed)
       THEN [transactions |-> marked, inventory |-> <<>>,
             sent |-> flush(sent, channel, 1, pushed)]
       ELSE [transactions |-> marked, inventory |-> pushed, sent |-> sent]

\* advertise_txids: `for (txid, info) in self.transactions.iter_mut()` over
\* the entries from, from + 1, .., to - 1, the first half of them and then
\* the second (the comparison makes TLC evaluate the first half before it
\* starts on the second)
RECURSIVE advertise_entries(_, _, _, _, _, _, _)
advertise_entries(txs, channel, address, from, to, inventory, sent) ==
    IF from >= to
    THEN [transactions |-> txs, inventory |-> inventory, sent |-> sent]
    ELSE IF from + 1 = to
    THEN advertise_entry(txs, channel, address, from, inventory, sent)
    ELSE LET mid == (from + to) \div 2
             half == advertise_entries(txs, channel, address, from, mid,
                                       inventory, sent)
         IN IF half.transactions = txs
            THEN advertise_entries(txs, channel, address, mid, to,
                                   half.inventory, half.sent)
            ELSE advertise_entries(half.transactions, channel, address,
                                   mid, to, half.inventory, half.sent)

\* advertise_txids: `for address in channel.available_connections()`, from
\* the j-th address on
RECURSIVE advertise_txids_from(_, _, _, _)
advertise_txids_from(txs, channel, j, sent) ==
    IF j > Len(channel.available_connections)
    THEN [transactions |-> txs, sent |-> sent]
    ELSE LET address == channel.available_connections[j]
             r == advertise_entries(txs, channel, address, 1,
                                    Len(txs) + 1, <<>>, sent)
             command == Command(address, Inv(r.inventory))
         IN IF is_empty(r.inventory)
            THEN advertise_txids_from(r.transactions, channel, j + 1, r.sent)
            ELSE IF ok(send_result(channel, command))
            THEN advertise_txids_from(r.transactions, channel, j + 1,
                                      send(r.sent, command))
            ELSE [transactions |-> r.transactions,
                  sent |-> send(r.sent, command)]

\* TransactionManager::advertise_txids
advertise_txids(txs, channel) ==
    advertise_txids_from(txs, channel, 1, <<>>)

\* A tick that reaps before it advertises
tick_reap_first(txs, channel, time) ==
    LET r == advertise_txids(reap(txs, time), channel)
    IN [transactions |-> r.transactions,
        advertised |-> r.transactions,
        sent |-> r.sent]

\* TransactionManager::tick
tick(txs, channel, time) ==
    LET r == advertise_txids(txs, channel)
    IN [transactions |-> reap(r.transactions, time),
        advertised |-> r.transactions,
        sent |-> r.sent]

\* ------------------------------------------------------------------ getdata
\* The inventory of the test's getdata: Inventory::Transaction(txid) for the
\* transactions with lock_time 0, 1, .., n - 1
inventory_of_lock_times(n) ==
    [i \in 1..n |->
        InventoryTransaction(txid_of(transaction_with_lock_time(i - 1)))]

\* A network message; the long getdata messages are kept as the number of
\* their items
GetDataLockTimes(n) == [type |-> "getdata", lock_times |-> n]
inventory_of(message) ==
    IF "lock_times" \in DOMAIN message
    THEN inventory_of_lock_times(message.lock_times)
    ELSE message.inventory

\* A length test that rejects the longest inventory allowed
exceeds_or_reaches(inventory) == Len(inventory) >= MAXIMUM_TRANSACTION_PER_INV

\* inventory.len() > MAXIMUM_TRANSACTION_PER_INV
exceeds(inventory) == Len(inventory) > MAXIMUM_TRANSACTION_PER_INV

\* A serving of getdata that takes every inventory item for a transaction
is_transaction_any(inv) == TRUE

\* if let Inventory::Transaction(txid) = inv
is_transaction(inv) == inv.kind = "Transaction"

\* A serving of getdata that removes what it has sent from the cache
remove_served(txs, served) ==
    SelectSeq(txs, LAMBDA info : info.txid \notin served)

\* self.transactions.get_mut(txid) hands out the entry; the loop reads its
\* transaction and writes nothing
keep_served(txs, served) == txs

\* TransactionManager::process_bitcoin_network_message
process_bitcoin_network_message(txs, channel, addr, message) ==
    IF message.type = "getdata"
    THEN LET inventory == inventory_of(message)
         IN IF exceeds(inventory)
            THEN [transactions |-> txs, sent |-> <<>>,
                  result |-> [type |-> "Err", err |-> "InvalidMessage"]]
            ELSE LET cached == txids(txs)
                     found == SelectSeq(inventory, LAMBDA inv :
                                  is_transaction(inv) /\ inv.hash \in cached)
                     commands ==
                         [k \in 1..Len(found) |->
                             Command(addr,
                                     Tx(get(txs, found[k].hash).transaction))]
                     stops == {k \in 1..Len(commands) :
                                  ~ok(send_result(channel, commands[k]))}
                     last == IF stops = {} THEN Len(commands)
                             ELSE CHOOSE k \in stops : \A l \in stops : k <= l
                 IN [transactions |->
                         keep_served(txs, {found[k].hash : k \in 1..last}),
                     sent |-> SubSeq(commands, 1, last),
                     result |-> IF stops = {} THEN [type |-> "Ok"]
                                ELSE [type |-> "Err", err |-> "send"]]
    ELSE [transactions |-> txs, sent |-> <<>>, result |-> [type |-> "Ok"]]

\* ------------------------------------------------------------ the actions
\* The count of the INVs among `sent` that are addressed to `address` and
\* list `txid`
invs_listing(sent, listed, txid, address) ==
    Cardinality({k \in 1..Len(sent) :
                    /\ sent[k].message.type = "inv"
                    /\ sent[k].address = address
                    /\ txid \in listed[k]})

\* inv_sent after a call that left the entries `kept` in the cache, made the
\* cache `txs` and handed `sent` to the channel
inv_sent_after(kept, txs, sent) ==
    LET listed == [k \in 1..Len(sent) |->
                      IF sent[k].message.type = "inv"
                      THEN {sent[k].message.inventory[i].hash :
                               i \in 1..Len(sent[k].message.inventory)}
                      ELSE {}]
    IN [txid \in txids(txs) |->
           [address \in Addresses |->
               LET before == IF txid \in kept /\ txid \in DOMAIN inv_sent
                             THEN inv_sent[txid][address] ELSE 0
                   more == invs_listing(sent, listed, txid, address)
               IN IF before + more > MaxInvCount THEN MaxInvCount
                  ELSE before + more]]

\* The network messages handed to process_bitcoin_network_message
InventoryItems ==
    {InventoryTransaction(txid_of(t)) : t \in Transactions}
        \cup {InventoryBlock(1)}
Messages ==
    {GetData(inventory) :
        inventory \in UNION {[1..n -> InventoryItems] : n \in 0..MaxGetData}}
        \cup {Inv(<<InventoryTransaction(1)>>)}
LongMessages ==
    {GetDataLockTimes(MAXIMUM_TRANSACTION_PER_INV),
     GetDataLockTimes(MAXIMUM_TRANSACTION_PER_INV + 1)}

\* The peers for which the channel's send fails during one call: any of the
\* peers that the call, with every send taken, hands a command for; the
\* failures are followed on caches of at most MaxFollowedCache entries
Failing(txs, sent) ==
    IF Len(txs) <= MaxFollowedCache
    THEN SUBSET {sent[k].address : k \in 1..Len(sent)}
    ELSE {{}}

\* TransactionManager::send_transaction
SendTransaction ==
    /\ ret = NoCall
    /\ \E raw_tx \in RawTransactions :
        LET r == send_transaction(transactions, raw_tx, now)
        IN /\ transactions' = r.transactions
           /\ inv_sent' = inv_sent_after(
                  txids(transactions) \ txids(r.evicted), r.transactions, <<>>)
           /\ ret' = [op |-> "send_transaction", before |-> transactions,
                      raw_tx |-> raw_tx,
                      evicted |-> r.evicted, inserted |-> r.inserted]
    /\ UNCHANGED <<headers, tips, block_cache, available_connections, now>>

\* The loop of test_adapter_transaction_cache_full: send_transaction for
\* each of the transactions with lock_time 0, 1, .., TX_CACHE_SIZE - 1;
\* followed from a cache of at most MaxLoopCache entries that were not
\* advertised yet
SendTransactions ==
    /\ ret = NoCall
    /\ Len(transactions) <= MaxLoopCache
    /\ \A info \in {transactions[i] : i \in 1..Len(transactions)} :
           info.advertised = {}
    /\ LET txs == send_transactions(transactions, 0, TX_CACHE_SIZE, now)
       IN /\ transactions' = txs
          /\ inv_sent' = inv_sent_after(txids(transactions), txs, <<>>)
          /\ ret' = [op |-> "send_transactions", before |-> transactions,
                     count |-> TX_CACHE_SIZE]
    /\ UNCHANGED <<headers, tips, block_cache, available_connections, now>>

\* TransactionManager::tick
Tick ==
    /\ ret = NoCall
    /\ \E failing \in Failing(transactions,
                             tick(transactions,
                                  Channel(available_connections, {}),
                                  now).sent) :
       LET r == tick(transactions, Channel(available_connections, failing),
                     now)
       IN /\ transactions' = r.transactions
          /\ inv_sent' = inv_sent_after(txids(transactions), r.transactions,
                                        r.sent)
          /\ ret' = [op |-> "tick", before |-> transactions,
                     connections |-> available_connections,
                     failing |-> failing,
                     advertised |-> r.advertised, sent |-> r.sent]
    /\ UNCHANGED <<headers, tips, block_cache, available_connections, now>>

\* TransactionManager::tick as the next call after a
\* process_bitcoin_network_message that served a getdata
\* (test_adapter_dont_readvertise)
TickAfterGetData ==
    /\ ret.op = "process_bitcoin_network_message"
    /\ ret.sent # <<>>
    /\ \E failing \in Failing(transactions,
                             tick(transactions,
                                  Channel(available_connections, {}),
                                  now).sent) :
       LET r == tick(transactions, Channel(available_connections, failing),
                     now)
       IN /\ transactions' = r.transactions
          /\ inv_sent' = inv_sent_after(txids(transactions), r.transactions,
                                        r.sent)
          /\ ret' = [op |-> "tick", before |-> transactions,
                     connections |-> available_connections,
                     failing |-> failing,
                     advertised |-> r.advertised, sent |-> r.sent,
                     served |-> ret.sent]
    /\ UNCHANGED <<headers, tips, block_cache, available_connections, now>>

\* TransactionManager::process_bitcoin_network_message
ProcessBitcoinNetworkMessage ==
    /\ ret = NoCall
    /\ Len(transactions) <= MaxFollowedCache
    /\ \E addr \in Addresses, message \in Messages :
      \E failing \in Failing(transactions, process_bitcoin_network_message(
                                  transactions,
                                  Channel(available_connections, {}),
                                  addr, message).sent) :
        LET r == process_bitcoin_network_message(
                     transactions, Channel(available_connections, failing),
                     addr, message)
        IN /\ transactions' = r.transactions
           /\ inv_sent' = inv_sent_after(txids(transactions), r.transactions,
                                         r.sent)
           /\ ret' = [op |-> "process_bitcoin_network_message",
                      before |-> transactions, addr |-> addr,
                      message |-> message, failing |-> failing,
                      result |-> r.result, sent |-> r.sent]
    /\ UNCHANGED <<headers, tips, block_cache, available_connections, now>>

\* TransactionManager::process_bitcoin_network_message with the getdata of
\* test_invalid_process_bitcoin_network_message and the one an item shorter,
\* on a cache of at most MaxLongGetDataCache entries, at the first instant
\* and with no peer connected
ProcessLongGetData ==
    /\ ret = NoCall
    /\ Len(transactions) <= MaxLongGetDataCache
    /\ now = 0
    /\ available_connections = <<>>
    /\ \E addr \in Addresses, message \in LongMessages :
      \E failing \in Failing(transactions, process_bitcoin_network_message(
                                  transactions,
                                  Channel(available_connections, {}),
                                  addr, message).sent) :
        LET r == process_bitcoin_network_message(
                     transactions, Channel(available_connections, failing),
                     addr, message)
        IN /\ transactions' = r.transactions
           /\ inv_sent' = inv_sent_after(txids(transactions), r.transactions,
                                         r.sent)
           /\ ret' = [op |-> "process_bitcoin_network_message",
                      before |-> transactions, addr |-> addr,
                      message |-> message, failing |-> failing,
                      result |-> r.result, sent |-> r.sent]
    /\ UNCHANGED <<headers, tips, block_cache, available_connections, now>>

\* TransactionManager::make_idle
MakeIdle ==
    /\ ret = NoCall
    /\ transactions' = make_idle(transactions)
    /\ inv_sent' = inv_sent_after({}, make_idle(transactions), <<>>)
    /\ ret' = [op |-> "make_idle", before |-> transactions]
    /\ UNCHANGED <<headers, tips, block_cache, available_connections, now>>

\* TransactionManager::tick as the next call after a tick in which a send
\* of an INV failed
TickAfterFailedSend ==
    /\ ret.op = "tick"
    /\ \E k \in 1..Len(ret.sent) : ret.sent[k].address \in ret.failing
    /\ \E failing \in Failing(transactions,
                             tick(transactions,
                                  Channel(available_connections, {}),
                                  now).sent) :
       LET r == tick(transactions, Channel(available_connections, failing),
                     now)
       IN /\ transactions' = r.transactions
          /\ inv_sent' = inv_sent_after(txids(transactions), r.transactions,
                                        r.sent)
          /\ ret' = [op |-> "tick", before |-> transactions,
                     connections |-> available_connections,
                     failing |-> failing,
                     advertised |-> r.advertised, sent |-> r.sent,
                     failed |-> SelectSeq(ret.sent, LAMBDA command :
                                    command.address \in ret.failing)]
    /\ UNCHANGED <<headers, tips, block_cache, available_connections, now>>

\* TransactionManager::tick as the next call after make_idle
TickAfterMakeIdle ==
    /\ ret.op = "make_idle"
    /\ \E failing \in Failing(transactions,
                             tick(transactions,
                                  Channel(available_connections, {}),
                                  now).sent) :
       LET r == tick(transactions, Channel(available_connections, failing),
                     now)
       IN /\ transactions' = r.transactions
          /\ inv_sent' = inv_sent_after(txids(transactions), r.transactions,
                                        r.sent)
          /\ ret' = [op |-> "tick", before |-> transactions,
                     connections |-> available_connections,
                     failing |-> failing,
                     advertised |-> r.advertised, sent |-> r.sent,
                     emptied |-> ret.before]
    /\ UNCHANGED <<headers, tips, block_cache, available_connections, now>>

\* The entries that the call that has just returned removed from the cache
\* after they had been advertised, and whose txid is not cached now
removed_advertised ==
    LET gone == IF ret.op = "send_transaction"
                THEN {ret.evicted[i] : i \in 1..Len(ret.evicted)}
                ELSE IF /\ ret.op \in {"tick", "make_idle"}
                        /\ Len(ret.before) <= MaxFollowedCache
                THEN {ret.before[i] : i \in 1..Len(ret.before)}
                ELSE {}
    IN {info \in gone : /\ info.advertised # {}
                        /\ ~contains_key(transactions, info.txid)}

\* TransactionManager::send_transaction as the next call after a tick, a
\* make_idle or a send_transaction that removed an entry, with the removed
\* entry's transaction when it is one of the transactions that
\* SendTransaction sends
SendTransactionAgain ==
    /\ ret.op \in {"tick", "make_idle", "send_transaction"}
    /\ \E removed \in removed_advertised :
        LET raw_tx == serialize(removed.transaction)
            r == send_transaction(transactions, raw_tx, now)
        IN /\ raw_tx \in RawTransactions
           /\ transactions' = r.transactions
           /\ inv_sent' = inv_sent_after(
                  txids(transactions) \ txids(r.evicted), r.transactions, <<>>)
           /\ ret' = [op |-> "send_transaction", before |-> transactions,
                      raw_tx |-> raw_tx,
                      evicted |-> r.evicted, inserted |-> r.inserted,
                      removed |-> removed]
    /\ UNCHANGED <<headers, tips, block_cache, available_connections, now>>

\* TransactionManager::tick as the next call after the send_transaction that
\* brought a removed transaction back
TickAfterSendAgain ==
    /\ ret.op = "send_transaction"
    /\ "removed" \in DOMAIN ret
    /\ \E failing \in Failing(transactions,
                             tick(transactions,
                                  Channel(available_connections, {}),
                                  now).sent) :
       LET r == tick(transactions, Channel(available_connections, failing),
                     now)
       IN /\ transactions' = r.transactions
          /\ inv_sent' = inv_sent_after(txids(transactions), r.transactions,
                                        r.sent)
          /\ ret' = [op |-> "tick", before |-> transactions,
                     connections |-> available_connections,
                     failing |-> failing,
                     advertised |-> r.advertised, sent |-> r.sent,
                     removed |-> ret.removed]
    /\ UNCHANGED <<headers, tips, block_cache, available_connections, now>>

\* The clock moves on between two calls.
AdvanceClock ==
    /\ ret = NoCall
    /\ Len(transactions) <= MaxFollowedCache
    /\ \E time \in Instants : time > now /\ now' = time
    /\ UNCHANGED <<headers, tips, block_cache, ret, transactions,
                   available_connections, inv_sent>>

\* A peer connects: the channel lists it after the others
\* (TestChannel::add_address).
AddAddress ==
    /\ ret = NoCall
    /\ Len(transactions) <= MaxFollowedCache
    /\ \E address \in Addresses :
        /\ \A k \in 1..Len(available_connections) :
               available_connections[k] # address
        /\ available_connections' = Append(available_connections, address)
    /\ UNCHANGED <<headers, tips, block_cache, ret, transactions, now,
                   inv_sent>>

\* A peer disconnects: the channel lists the others as before.
RemoveAddress ==
    /\ ret = NoCall
    /\ Len(transactions) <= MaxFollowedCache
    /\ \E k \in 1..Len(available_connections) :
        available_connections' =
            SelectSeq(available_connections,
                      LAMBDA address : address # available_connections[k])
    /\ UNCHANGED <<headers, tips, block_cache, ret, transactions, now,
                   inv_sent>>

TxNext ==
    \/ SendTransaction
    \/ SendTransactions
    \/ Tick
    \/ TickAfterGetData
    \/ ProcessBitcoinNetworkMessage
    \/ ProcessLongGetData
    \/ MakeIdle
    \/ TickAfterMakeIdle
    \/ TickAfterFailedSend
    \/ SendTransactionAgain
    \/ TickAfterSendAgain
    \/ AdvanceClock
    \/ AddAddress
    \/ RemoveAddress
    \/ Return

SpecTx == Init /\ [][TxNext]_vars

\* ================================================ ticks as the clock goes on
\* The transaction manager under a clock that keeps advancing and a driver
\* that keeps calling tick: a call starts when the one before it has
\* returned, and a step of the clock lies between two calls. The clock is
\* followed over MaxLivePeriods timeout periods, and transactions are sent
\* as long as their timeout lies before the last instant followed. No peer
\* is connected, so that advertise_txids has nothing to send and tick comes
\* down to its reap.
MaxLivePeriods == 2
LiveInstants ==
    {0} \cup {k * TX_CACHE_TIMEOUT_PERIOD_SECS + j :
                 k \in 1..MaxLivePeriods, j \in 0..1}
LastInstant == MaxLivePeriods * TX_CACHE_TIMEOUT_PERIOD_SECS + 1

\* TransactionManager::send_transaction, while the new entry's timeout lies
\* before the last instant followed
SendTransactionInTime ==
    /\ now + TX_CACHE_TIMEOUT_PERIOD_SECS < LastInstant
    /\ \E raw_tx \in RawTransactions :
        LET r == send_transaction(transactions, raw_tx, now)
        IN /\ transactions' = r.transactions
           /\ inv_sent' = inv_sent_after(
                  txids(transactions) \ txids(r.evicted), r.transactions, <<>>)
           /\ ret' = [op |-> "send_transaction", before |-> transactions,
                      raw_tx |-> raw_tx,
                      evicted |-> r.evicted, inserted |-> r.inserted]
    /\ UNCHANGED <<headers, tips, block_cache, available_connections, now>>

\* TransactionManager::tick, with a channel that takes every command
TickAgain ==
    /\ LET r == tick(transactions, Channel(available_connections, {}), now)
       IN /\ transactions' = r.transactions
          /\ inv_sent' = inv_sent_after(txids(transactions), r.transactions,
                                        r.sent)
          /\ ret' = [op |-> "tick", before |-> transactions,
                     connections |-> available_connections,
                     failing |-> {},
                     advertised |-> r.advertised, sent |-> r.sent]
    /\ UNCHANGED <<headers, tips, block_cache, available_connections, now>>

\* The last call has returned and the clock moves on.
AdvanceLiveClock ==
    /\ \E time \in LiveInstants : time > now /\ now' = time
    /\ ret' = NoCall
    /\ UNCHANGED <<headers, tips, block_cache, transactions,
                   available_connections, inv_sent>>

LiveNext ==
    \/ SendTransactionInTime
    \/ TickAgain
    \/ MakeIdle
    \/ AdvanceLiveClock
    \/ Return

\* The driver calls tick again and again and the clock keeps advancing.
SpecTxLive ==
    /\ Init
    /\ [][LiveNext]_vars
    /\ WF_vars(TickAgain)
    /\ WF_vars(AdvanceLiveClock)

\* ================================================================ claims
Leaves(hs) == {h \in DOMAIN hs : hs[h].children = <<>>}
TipHashes(tps) == {block_hash(tps[i].header) : i \in 1..Len(tps)}
Min(S) == CHOOSE x \in S : \A y \in S : x <= y

\* The headers among hdrs[1..n] that `known` does not hold, each once, in
\* the order of hdrs
RECURSIVE NewHeaders(_, _, _)
NewHeaders(hdrs, n, known) ==
    IF n = 0 THEN <<>>
    ELSE IF hdrs[n] \in known \/ \E j \in 1..(n - 1) : hdrs[j] = hdrs[n]
    THEN NewHeaders(hdrs, n - 1, known)
    ELSE Append(NewHeaders(hdrs, n - 1, known), hdrs[n])

HeadersOf(nodes) == [i \in 1..Len(nodes) |-> nodes[i].header]

\* C1: after any sequence of add_headers and add_block calls, successful or
\* failing, the tips are exactly the header nodes without children, each
\* once, projected from their nodes and ordered by non-increasing cumulative
\* work.
C1_TipsAreSortedLeaves ==
    /\ TipHashes(tips) = Leaves(headers)
    /\ \A i, j \in 1..Len(tips) :
            i # j => block_hash(tips[i].header) # block_hash(tips[j].header)
    /\ \A i \in 1..Len(tips) : tips[i] = Tip(headers[block_hash(tips[i].header)])
    /\ \A i \in 1..(Len(tips) - 1) :
            headers[block_hash(tips[i].header)].work
                >= headers[block_hash(tips[i + 1].header)].work

\* A failing add_headers that left two tips of different work behind
C1_Witness ==
    /\ ret.op = "add_headers"
    /\ ret.err # None
    /\ Len(ret.added) >= 1
    /\ Len(tips) = 2
    /\ tips[1].work > tips[2].work

\* C2: in every state reachable through the public operations the tip
\* sequence is non-empty, and the tip get_active_chain_tip() returns has at
\* least the cumulative work of every other tip.
C2_ActiveTipDefinedAndHeaviest ==
    /\ Len(tips) >= 1
    /\ \A i \in 1..Len(tips) : get_active_chain_tip(tips).work >= tips[i].work

\* A block-cache removal has run on a forked tree whose heavier tip came last
C2_Witness ==
    /\ ret.op \in {"prune_blocks", "prune_blocks_below_height", "clear_blocks"}
    /\ Len(tips) = 2
    /\ headers[GenesisHash].children = <<1, 2>>
    /\ block_hash(get_active_chain_tip(tips).header) = 2

\* The index of the first header of the slice that is not in the store
\* after the call: the header add_headers failed on
FirstMissing(hdrs, hs) == Min({i \in 1..Len(hdrs) : hdrs[i] \notin DOMAIN hs})

\* C3: add_headers processes its input in order and stops at the first
\* header add_header fails on: it returns the newly added headers that
\* precede that header, in input order, and the error of that header; no
\* header after it is inserted; the headers added before it stay in the
\* store and in the tips.
C3_Step ==
    ret'.op = "add_headers" =>
        LET hdrs == ret'.headers
            missing == {i \in 1..Len(hdrs) : hdrs[i] \notin DOMAIN headers'}
        IN /\ (ret'.err = None) <=> (missing = {})
           /\ ret'.err = None =>
                /\ HeadersOf(ret'.added) = NewHeaders(hdrs, Len(hdrs), DOMAIN headers)
                /\ Len(ret'.steps) = Len(hdrs)
           /\ ret'.err # None =>
                LET f == FirstMissing(hdrs, headers')
                IN /\ Len(ret'.steps) = f
                   /\ \A i \in 1..(f - 1) : ret'.steps[i].res # "Err"
                   /\ ret'.steps[f].res = "Err"
                   /\ \/ /\ ret'.err.type = "InvalidHeader"
                         /\ ret'.err.hash = block_hash(hdrs[f])
                      \/ /\ ret'.err.type = "PrevHeaderNotCached"
                         /\ ret'.err.hash = prev_blockhash(hdrs[f])
                   /\ HeadersOf(ret'.added) = NewHeaders(hdrs, f - 1, DOMAIN headers)
                   /\ DOMAIN headers' =
                        DOMAIN headers \cup {hdrs[i] : i \in 1..(f - 1)}
                   /\ \A i \in 1..Len(ret'.added) :
                        LET a == ret'.added[i]
                        IN /\ block_hash(a.header) \in DOMAIN headers'
                           /\ Tip(headers'[block_hash(a.header)]) = a
                           /\ headers'[block_hash(a.header)].children = <<>>
                                => \E k \in 1..Len(tips') : tips'[k] = a

\* C3: every add_headers step stops at its first failing header, as C3_Step states
C3_StopsAtFirstError == [][C3_Step]_vars

\* add_headers failed after adding a header, with a header left in the
\* slice that the store would have accepted
C3_Witness ==
    /\ ret.op = "add_headers"
    /\ ret.err # None
    /\ Len(ret.added) >= 1
    /\ \E j \in (Len(ret.steps) + 1)..Len(ret.headers) :
            /\ ret.headers[j] \in 1..NumHeaders
            /\ ret.headers[j] \notin DOMAIN headers
            /\ prev_blockhash(ret.headers[j]) \in DOMAIN headers
    /\ \E k \in 1..Len(tips) : tips[k] = ret.added[Len(ret.added)]

\* hdrs[1..n] is a single chain that extends genesis
IsChainFromGenesis(hdrs, n) ==
    \A i \in 1..n :
        prev_blockhash(hdrs[i]) =
            IF i = 1 THEN GenesisHash ELSE block_hash(hdrs[i - 1])

PrevHeaderNotFound(header) ==
    [type |-> "InvalidHeader", hash |-> block_hash(header),
     cause |-> "PrevHeaderNotFound"]

\* C4: a header of an add_headers batch whose prev_blockhash is not in the
\* header store when it is processed makes add_headers return
\* InvalidHeader(its block hash, PrevHeaderNotFound) with the headers added
\* before it; starting from genesis on a single chain the active tip is then
\* the last header added, at height = number of headers added. add_block
\* rejects such a header the same way, wrapped as AddBlockError::Header.
C4_Step ==
    /\ ret'.op = "add_headers" =>
        LET hdrs == ret'.headers
        IN /\ (\E i \in 1..Len(hdrs) :
                    prev_blockhash(hdrs[i]) \notin
                        DOMAIN headers \cup {block_hash(hdrs[j]) : j \in 1..(i - 1)})
                => ret'.err # None
           /\ ret'.err # None =>
                LET f == FirstMissing(hdrs, headers')
                IN prev_blockhash(hdrs[f]) \notin DOMAIN headers' =>
                    /\ ret'.err = PrevHeaderNotFound(hdrs[f])
                    /\ HeadersOf(ret'.added) = NewHeaders(hdrs, f - 1, DOMAIN headers)
                    /\ (headers = HeaderCache_new /\ IsChainFromGenesis(hdrs, f - 1)) =>
                        /\ HeadersOf(ret'.added) = SubSeq(hdrs, 1, f - 1)
                        /\ get_active_chain_tip(tips').height = f - 1
                        /\ get_active_chain_tip(tips').header =
                                IF f = 1 THEN GenesisHash ELSE hdrs[f - 1]
    /\ (/\ ret'.op = "add_block"
        /\ ret'.block.txdata # "mismatching"
        /\ prev_blockhash(ret'.block.header) \notin DOMAIN headers)
        => ret'.result = [type |-> "Err",
                          err |-> [type |-> "Header",
                                   err |-> PrevHeaderNotFound(ret'.block.header)]]

C5_Step ==
    (ret'.op = "add_headers" /\ ret'.err # None) =>
        LET hdrs == ret'.headers
            f == FirstMissing(hdrs, headers')
        IN (/\ prev_blockhash(hdrs[f]) \notin DOMAIN headers'
            /\ \E j \in (f + 1)..Len(hdrs) :
                    block_hash(hdrs[j]) = prev_blockhash(hdrs[f]))
            => /\ ret'.err = [type |-> "PrevHeaderNotCached",
                              hash |-> prev_blockhash(hdrs[f])]
               /\ \A i \in 1..Len(ret'.added) :
                    block_hash(ret'.added[i].header) \in DOMAIN headers'

\* C5: the claim as stated, over every add_headers step
C5_PrevHeaderNotCached == [][C5_Step]_vars

\* C6 as claimed: when add_headers(H) returned no error, an immediately
\* following add_headers(H) returns an empty added list and no error and
\* leaves the header store, every node's children and the tip sequence
\* unchanged.
C6_Step ==
    (/\ ret.op = "add_headers"
     /\ ret.err = None
     /\ ret'.op = "add_headers"
     /\ ret'.headers = ret.headers)
    => /\ ret'.added = <<>>
       /\ ret'.err = None
       /\ headers' = headers
       /\ tips' = tips

\* C6: the claim as stated, over every repeated add_headers call
C6_AddHeadersTwice == [][C6_Step]_vars

\* C7 as claimed: after add_headers or add_block, two tips of equal
\* cumulative work keep the order in which they stood (the sort is stable),
\* and when no tip has more work than the tip that was active, and that tip
\* is still a tip, get_active_chain_tip() still returns it.
C7_Step ==
    ret'.op \in {"add_headers", "add_block"} =>
        /\ \A i, j \in 1..Len(tips) : \A k, l \in 1..Len(tips') :
            (/\ i < j
             /\ tips[i].work = tips[j].work
             /\ tips'[k] = tips[i]
             /\ tips'[l] = tips[j]) => k < l
        /\ (/\ \E k \in 1..Len(tips') : tips'[k] = get_active_chain_tip(tips)
            /\ \A k \in 1..Len(tips') :
                    tips'[k].work <= get_active_chain_tip(tips).work)
            => get_active_chain_tip(tips') = get_active_chain_tip(tips)

\* C7: the claim as stated, over every add_headers and add_block step
C7_StableTips == [][C7_Step]_vars

\* C8: for a valid chain h1..hn extending genesis in a fresh state,
\* add_headers(h1..hn) returns the n added nodes in input order with heights
\* 1..n and no error, and the active tip is then hn at height n (genesis at
\* height 0 for the empty slice).
C8_Step ==
    (/\ headers = HeaderCache_new
     /\ ret'.op = "add_headers"
     /\ IsChainFromGenesis(ret'.headers, Len(ret'.headers))
     /\ \A i \in 1..Len(ret'.headers) : ret'.headers[i] # TimeZeroHeader)
    => LET hdrs == ret'.headers
           n == Len(hdrs)
       IN /\ ret'.err = None
          /\ Len(ret'.added) = n
          /\ \A i \in 1..n :
                /\ ret'.added[i].header = hdrs[i]
                /\ ret'.added[i].height = i
          /\ get_active_chain_tip(tips').height = n
          /\ get_active_chain_tip(tips').header =
                IF n = 0 THEN GenesisHash ELSE hdrs[n]

\* C8: every add_headers of a valid chain on the fresh state behaves as C8_Step states
C8_StraightChain == [][C8_Step]_vars

\* A chain of two headers was added to the fresh state
C8_Witness ==
    /\ ret.op = "add_headers"
    /\ Len(ret.headers) = 2
    /\ IsChainFromGenesis(ret.headers, 2)
    /\ ret.steps[1].before = <<Tip(HeaderCache_new[GenesisHash])>>
    /\ Len(ret.added) = 2
    /\ DOMAIN headers = {GenesisHash, ret.headers[1], ret.headers[2]}
    /\ get_active_chain_tip(tips).header = ret.headers[2]

\* C9: a successful add_header of X replaces the tip of X's parent by X when
\* the parent is a tip (same number of tips) and appends X otherwise (one
\* more tip). So after add_headers of a fork from an interior node whose
\* cumulative work exceeds that of the previous best chain there is one more
\* tip, the fork's last header is first, and the previous active tip is
\* still a tip behind it.
C9_Step ==
    /\ ret'.op \in {"add_headers", "add_block"} =>
        \A s \in 1..Len(ret'.steps) :
            LET step == ret'.steps[s]
                X == step.header
                parents == {i \in 1..Len(step.before) :
                                block_hash(step.before[i].header) = prev_blockhash(X)}
            IN step.res = "HeaderAdded" =>
                /\ parents # {} =>
                    /\ Len(step.after) = Len(step.before)
                    /\ \E i \in parents :
                        /\ step.after[i] = Tip(headers'[block_hash(X)])
                        /\ \A j \in 1..Len(step.before) :
                                j # i => step.after[j] = step.before[j]
                /\ parents = {} =>
                    step.after = Append(step.before, Tip(headers'[block_hash(X)]))
    /\ (/\ ret'.op = "add_headers"
        /\ ret'.headers # <<>>
        /\ HeadersOf(ret'.added) = ret'.headers
        /\ \A i \in 2..Len(ret'.headers) :
                prev_blockhash(ret'.headers[i]) = block_hash(ret'.headers[i - 1])
        /\ headers[prev_blockhash(ret'.headers[1])].children # <<>>
        /\ ret'.added[Len(ret'.added)].work > get_active_chain_tip(tips).work)
        => /\ Len(tips') = Len(tips) + 1
           /\ tips'[1] = ret'.added[Len(ret'.added)]
           /\ \E k \in 2..Len(tips') : tips'[k] = get_active_chain_tip(tips)

\* C9: every add_header and every overtaking fork changes the tips as C9_Step states
C9_TipUpdate == [][C9_Step]_vars

\* A fork from genesis, which had a child, overtook the only tip
C9_Witness ==
    /\ ret.op = "add_headers"
    /\ ret.err = None
    /\ ret.headers # <<>>
    /\ Len(ret.added) = Len(ret.headers)
    /\ Len(ret.steps[1].before) = 1
    /\ ret.steps[1].after = Append(ret.steps[1].before, ret.added[1])
    /\ Len(tips) = 2
    /\ tips[1] = ret.added[Len(ret.added)]
    /\ tips[2] = ret.steps[1].before[1]
    /\ tips[1].work > tips[2].work

\* The number of parent links from the header to genesis
RECURSIVE PathLength(_)
PathLength(header) ==
    IF header \notin Headers THEN 0
    ELSE 1 + PathLength(prev_blockhash(header))

\* The work of the headers on the path from genesis to the header, both
\* included
RECURSIVE PathWork(_)
PathWork(header) ==
    IF header \notin Headers THEN header_work(GenesisHash)
    ELSE header_work(header) + PathWork(prev_blockhash(header))

\* C10: in every reachable state genesis has height 0 and its own header's
\* work, and every other node of the store has its parent in the store,
\* height = parent.height + 1 and work = parent.work + header.work; so a
\* node's height is the number of parent links to genesis and its work the
\* sum of the header work along that path.
C10_HeightAndWork ==
    \A h \in DOMAIN headers :
        /\ headers[h].header = h
        /\ h = GenesisHash =>
            /\ headers[h].height = 0
            /\ headers[h].work = header_work(GenesisHash)
        /\ h # GenesisHash =>
            /\ prev_blockhash(h) \in DOMAIN headers
            /\ headers[h].height = headers[prev_blockhash(h)].height + 1
            /\ headers[h].work = headers[prev_blockhash(h)].work + header_work(h)
        /\ headers[h].height = PathLength(h)
        /\ headers[h].work = PathWork(h)

\* Both branches are in the store, one of them two headers long
C10_Witness ==
    /\ {1, 2, 3} \subseteq DOMAIN headers
    /\ headers[3].height = 2
    /\ headers[2].work = 3

\* The number of entries of seq that equal x
Occurrences(seq, x) == Cardinality({i \in DOMAIN seq : seq[i] = x})

\* a is a prefix of b
IsPrefix(a, b) == Len(a) <= Len(b) /\ \A i \in 1..Len(a) : a[i] = b[i]

\* Every non-genesis node has its parent in the store and is listed once in
\* the parent's children; every children entry is a node of the store
C11_Linked ==
    \A h \in DOMAIN headers :
        /\ h # GenesisHash =>
            /\ prev_blockhash(h) \in DOMAIN headers
            /\ Occurrences(headers[prev_blockhash(h)].children, h) = 1
        /\ \A i \in 1..Len(headers[h].children) :
            headers[h].children[i] \in DOMAIN headers

\* No step reorders or shortens a children list
C11_Step ==
    \A h \in DOMAIN headers :
        /\ h \in DOMAIN headers'
        /\ IsPrefix(headers[h].children, headers'[h].children)

\* C11: in every reachable state every non-genesis node has its parent in
\* the store and appears exactly once in the parent's children, every entry
\* of a children list is a node of the store, and every step leaves each
\* children list a prefix of its later value.
C11_ChildrenLinkedAppendOnly == []C11_Linked /\ [][C11_Step]_vars

\* Genesis has two children, the second linked after the first
C11_Witness ==
    /\ Len(headers[GenesisHash].children) = 2
    /\ ret.op = "add_headers"
    /\ Len(ret.added) = 1
    /\ headers[GenesisHash].children[2] = block_hash(ret.added[1].header)

\* What a step may do to the header store: add nodes, and leave the header,
\* height and work of every node it held; the block-cache removals leave the
\* store and the tips as they were
C12_Step ==
    /\ \A h \in DOMAIN headers :
        /\ h \in DOMAIN headers'
        /\ headers'[h].header = headers[h].header
        /\ headers'[h].height = headers[h].height
        /\ headers'[h].work = headers[h].work
    /\ ret'.op \in {"prune_blocks", "prune_blocks_below_height", "clear_blocks"}
        => headers' = headers /\ tips' = tips

\* C12: no operation, successful or failing, removes a header node or
\* changes an existing node's header, height or work, and prune_blocks,
\* prune_blocks_below_height and clear_blocks leave the header store and the
\* tips unchanged.
C12_HeaderStoreOnlyGrows == [][C12_Step]_vars

\* A failing add_headers call that stored a header before its error, in a
\* state whose block cache holds a block
C12_Witness ==
    /\ ret.op = "add_headers"
    /\ ret.err # None
    /\ Len(ret.added) >= 1
    /\ DOMAIN block_cache # {}

\* C13: in every reachable state every key of the block cache is a key of
\* the header store.
C13_CachedBlocksHaveHeaders == DOMAIN block_cache \subseteq DOMAIN headers

\* add_block has cached a block whose header it added to the store itself
C13_Witness ==
    /\ ret.op = "add_block"
    /\ ret.result.type = "Ok"
    /\ ret.steps[1].res = "HeaderAdded"
    /\ block_hash(ret.block.header) \in DOMAIN block_cache

\* The step is a call of the operation op
Calls(op) == ret = NoCall /\ ret'.op = op

InvalidMerkleRoot(hash) ==
    [type |-> "Err", err |-> [type |-> "InvalidMerkleRoot", hash |-> hash]]

\* add_block of a block whose transactions do not hash to the header's
\* merkle_root fails with InvalidMerkleRoot and changes nothing, whatever the
\* header; a block without transactions does not fail with InvalidMerkleRoot
C14_Step ==
    Calls("add_block") =>
        /\ ret'.block.txdata = "mismatching" =>
            /\ ret'.result = InvalidMerkleRoot(block_hash(ret'.block.header))
            /\ UNCHANGED <<headers, tips, block_cache>>
        /\ ret'.block.txdata = "empty" =>
            ret'.result # InvalidMerkleRoot(block_hash(ret'.block.header))

\* C14: add_block of a block whose computed merkle root exists and differs
\* from the header's returns InvalidMerkleRoot(block hash) and leaves header
\* store, tips and block cache unchanged, also when the header would be
\* rejected; a block with no transactions is not rejected by this check.
C14_MerkleRootCheckedFirst == [][C14_Step]_vars

\* InvalidMerkleRoot was returned for a block whose header has no parent in
\* the store and would have been rejected as well
C14_Witness ==
    /\ ret.op = "add_block"
    /\ ret.block.txdata = "mismatching"
    /\ ret.block.header = OrphanHeader
    /\ ret.result = InvalidMerkleRoot(block_hash(OrphanHeader))

\* add_block of a block that passes the merkle check and whose header
\* add_header rejects: the error is wrapped, nothing changes
C15_Step ==
    (/\ Calls("add_block")
     /\ ret'.block.txdata # "mismatching"
     /\ add_header(headers, tips, ret'.block.header).res = "Err")
        => /\ ret'.result =
                [type |-> "Err",
                 err |-> [type |-> "Header",
                          err |-> add_header(headers, tips,
                                             ret'.block.header).err]]
           /\ block_hash(ret'.block.header) \in DOMAIN block_cache'
                => block_cache'[block_hash(ret'.block.header)] # ret'.block
           /\ UNCHANGED <<headers, tips, block_cache>>

\* C15: when add_header rejects the block's header, add_block returns
\* AddBlockError::Header wrapping that error, does not cache the block and
\* leaves the header store and the tips unchanged.
C15_HeaderErrorWrapped == [][C15_Step]_vars

\* add_block returned a wrapped InvalidHeader in a state that caches a block
C15_Witness ==
    /\ ret.op = "add_block"
    /\ ret.result.type = "Err"
    /\ ret.result.err.type = "Header"
    /\ ret.result.err.err.type = "InvalidHeader"
    /\ DOMAIN block_cache # {}

\* A successful add_block returns the height of the header's node, caches
\* the block under its hash in place of any block cached there, and leaves
\* the other cached blocks
C16_Step ==
    (Calls("add_block") /\ ret'.result.type = "Ok") =>
        LET b == ret'.block
            h == block_hash(b.header)
        IN /\ h \in DOMAIN headers'
           /\ ret'.result.height = headers'[h].height
           /\ h \notin DOMAIN headers =>
                ret'.result.height = headers[prev_blockhash(b.header)].height + 1
           /\ h \in DOMAIN headers => ret'.result.height = headers[h].height
           /\ get_block(block_cache', h) = b
           /\ DOMAIN block_cache' = DOMAIN block_cache \cup {h}
           /\ \A k \in DOMAIN block_cache \ {h} :
                block_cache'[k] = block_cache[k]

\* C16: a successful add_block(b) returns the height of b's header node
\* (parent height + 1 for a new header, the stored height for a known one),
\* afterwards get_block(b.hash) is b, and a block cached before under the
\* same hash is replaced, the cache holding one block per hash.
C16_AddBlockCachesAndReturnsHeight == [][C16_Step]_vars

\* add_block replaced a different block cached under the same hash
C16_Witness ==
    /\ ret.op = "add_block"
    /\ ret.result.type = "Ok"
    /\ ret.replaced # None
    /\ ret.replaced # ret.block
    /\ get_block(block_cache, block_hash(ret.block.header)) = ret.block
    /\ ret.steps[1].res = "HeaderAlreadyExists"
    /\ ret.result.height = 2

\* The height of a cached block's header; a block whose header is not in
\* the store counts as height 0
HeightOf(b) == IF b \in DOMAIN headers THEN headers[b].height ELSE 0

\* prune_blocks_below_height(h) keeps, untouched, the cached blocks of
\* height >= h, removes those of height < h and caches nothing
C17_Step ==
    Calls("prune_blocks_below_height") =>
        /\ DOMAIN block_cache' =
            {b \in DOMAIN block_cache : HeightOf(b) >= ret'.height}
        /\ \A b \in DOMAIN block_cache' : block_cache'[b] = block_cache[b]

\* C17: prune_blocks_below_height(h) removes exactly the cached blocks whose
\* header height is strictly less than h; a cached block of height >= h,
\* height == h included, is still cached afterwards.
C17_PruneBelowHeight == [][C17_Step]_vars

\* The call removed a block and kept the block at exactly the given height
C17_Witness ==
    /\ ret.op = "prune_blocks_below_height"
    /\ ret.removed # {}
    /\ \E b \in DOMAIN block_cache : HeightOf(b) = ret.height

\* prune_blocks(hashes) removes the listed hashes from the cache and keeps,
\* untouched, every other cached block
C18_Step ==
    Calls("prune_blocks") =>
        LET listed == {ret'.block_hashes[i] : i \in DOMAIN ret'.block_hashes}
        IN /\ DOMAIN block_cache' = DOMAIN block_cache \ listed
           /\ \A b \in DOMAIN block_cache' : block_cache'[b] = block_cache[b]
           /\ listed \cap DOMAIN block_cache = {} => block_cache' = block_cache

\* C18: prune_blocks(hashes) removes exactly the listed hashes that are
\* cached, ignores listed hashes that are not cached, and keeps every cached
\* block that is not listed.
C18_PruneListed == [][C18_Step]_vars

\* The call removed a listed block and left another block cached
C18_Witness ==
    /\ ret.op = "prune_blocks"
    /\ ret.removed # {}
    /\ DOMAIN block_cache # {}

\* The hash n parent links back from a header, by the headers' own
\* prev_blockhash (computed by halves, as walk_back is); DefaultHash, the
\* hash of no header, when the links end before
RECURSIVE Ancestor(_, _)
Ancestor(header, n) ==
    IF n = 0 \/ header = DefaultHash THEN header
    ELSE IF n = 1 THEN prev_blockhash(header)
    ELSE LET half == Ancestor(header, n \div 2)
         IN IF half = DefaultHash THEN DefaultHash
            ELSE Ancestor(half, n - (n \div 2))

ActiveTipHash == block_hash(get_active_chain_tip(tips).header)
ActiveHeight == headers[ActiveTipHash].height

\* C19: in every reachable state the list locator_hashes() returns is not
\* empty, starts with the active tip's hash, ends with the genesis hash, has
\* no hash twice, holds only ancestors of the active tip, in the order from
\* the tip to genesis, and has at most 24 elements.
C19_LocatorShape ==
    ret.op = "locator_hashes" =>
        LET hashes == ret.hashes
        IN /\ Len(hashes) >= 1
           /\ hashes[1] = ActiveTipHash
           /\ hashes[Len(hashes)] = GenesisHash
           /\ \A i, j \in 1..Len(hashes) : i # j => hashes[i] # hashes[j]
           /\ \A i \in 1..Len(hashes) :
                /\ hashes[i] \in DOMAIN headers
                /\ headers[hashes[i]].height <= ActiveHeight
                /\ hashes[i] = Ancestor(ActiveTipHash,
                                   ActiveHeight - headers[hashes[i]].height)
           /\ \A i \in 1..(Len(hashes) - 1) :
                headers[hashes[i]].height > headers[hashes[i + 1]].height
           /\ Len(hashes) <= 24

\* The 22nd round of locator_hashes pushed the genesis hash itself, which
\* was not pushed again when the walk back from it found no parent
C19_Witness ==
    /\ ret.op = "locator_hashes"
    /\ ActiveHeight = MidChain
    /\ Len(ret.hashes) = 22
    /\ ret.hashes[1] = block_hash(ChainHeader(MidChain))
    /\ ret.hashes[22] = GenesisHash

\* The back-offset of the hash locator_hashes pushes in round i: 0, 1, ...,
\* 8, then 8 + 2, 8 + 2 + 4, 8 + 2 + 4 + 8, ...
RECURSIVE LocatorOffset(_)
LocatorOffset(i) == IF i <= 8 THEN i ELSE LocatorOffset(i - 1) + 2^(i - 8)

\* The back-offsets 0, 1, ..., 7, then 7 + 2, 7 + 2 + 4, 7 + 2 + 4 + 8, ...
RECURSIVE DensityOffset(_)
DensityOffset(i) == IF i <= 7 THEN i ELSE DensityOffset(i - 1) + 2^(i - 7)

\* The rounds whose offset is a height of the active chain
RoundsWithin(offset(_)) == {i \in 0..21 : offset(i) <= ActiveHeight}

TxOps == {"send_transaction", "send_transactions", "tick",
          "process_bitcoin_network_message", "make_idle"}
Returned(op) == ret.op = op

\* The txids of a cache in iteration order
txid_seq(txs) == [i \in 1..Len(txs) |-> txs[i].txid]

\* The entries a send_transaction call removed and made again
Recreated ==
    IF Returned("send_transaction") /\ ret.inserted
    THEN {ret.evicted[i].txid : i \in 1..Len(ret.evicted)}
             \cap {txid_of(deserialize(ret.raw_tx).transaction)}
    ELSE {}

\* `after` iterates the entries it has kept from `before` in the order of
\* `before`, and the entries made since after all of them
InsertionOrderKept(before, after, recreated) ==
    LET old == txids(before) \ recreated
        kept == SelectSeq(after, LAMBDA info : info.txid \in old)
        still == txids(kept)
    IN /\ txid_seq(kept) =
              txid_seq(SelectSeq(before, LAMBDA info : info.txid \in still))
       /\ \A i \in 1..Len(after) : after[i].txid \in old <=> i <= Len(kept)

\* C21: in every state reached through send_transaction, tick,
\* process_bitcoin_network_message and make_idle the cache holds at most
\* TX_CACHE_SIZE = 250 entries, one per txid, and iterates them in the order
\* in which they were inserted: no entry was inserted before one that
\* precedes it, and every call leaves the entries it keeps in their order and
\* puts the entries it makes after them.
C21_CacheBoundedInInsertionOrder ==
    /\ Len(transactions) <= TX_CACHE_SIZE
    /\ Cardinality(txids(transactions)) = Len(transactions)
    /\ \A i \in 1..(Len(transactions) - 1) :
           transactions[i].timeout_at <= transactions[i + 1].timeout_at
    /\ ret.op \in TxOps =>
           InsertionOrderKept(ret.before, transactions, Recreated)

\* A full cache after a send_transaction that evicted the oldest entry and
\* put a new one behind the 249 others.
C21_Witness ==
    /\ Returned("send_transaction")
    /\ Len(ret.before) = TX_CACHE_SIZE
    /\ Len(transactions) = TX_CACHE_SIZE
    /\ ret.inserted
    /\ ret.evicted # <<>>
    /\ transactions[TX_CACHE_SIZE - 1] = ret.before[TX_CACHE_SIZE]


\* The txid of the transaction a send_transaction call was handed; none for
\* bytes that are no transaction
IncomingTxids ==
    LET r == deserialize(ret.raw_tx)
    IN IF r.type = "Ok" THEN {txid_of(r.transaction)} ELSE {}

\* C22: send_transaction evicts an entry only when the cache holds
\* TX_CACHE_SIZE = 250 entries and the incoming txid is not cached; the
\* evicted entry is the oldest one and the cache holds 250 entries afterwards;
\* in every other case no entry is removed.  (The statement of the claim; the
\* code evicts whenever the cache is full, also for a txid it holds.)
C22_EvictsOnlyForNewEntry ==
    Returned("send_transaction") =>
        /\ ret.evicted # <<>> =>
               /\ Len(ret.before) = TX_CACHE_SIZE
               /\ IncomingTxids \cap txids(ret.before) = {}
               /\ ret.evicted = <<ret.before[1]>>
               /\ Len(transactions) = TX_CACHE_SIZE
        /\ ret.evicted = <<>> =>
               \A i \in 1..Len(ret.before) : transactions[i] = ret.before[i]


\* The txids a cache iterates before and after the entry of `txid`
Preceding(txs, txid) == {txs[i].txid : i \in 1..(index_of(txs, txid) - 1)}
Following(txs, txid) ==
    {txs[i].txid : i \in (index_of(txs, txid) + 1)..Len(txs)}

\* C23: send_transaction with a transaction whose txid T is in the cache,
\* whatever the cache (a full one included), leaves the entry of T as it was:
\* same transaction, timeout_at and advertised set, and the same place in the
\* insertion order (no entry moves from before it to after it or back).  (The
\* statement of the claim; on a full cache the code evicts the oldest entry
\* first, which may be the entry of T.)
C23_ResendLeavesEntryUnchanged ==
    Returned("send_transaction") =>
        \A T \in IncomingTxids \cap txids(ret.before) :
            /\ contains_key(transactions, T)
            /\ get(transactions, T) = get(ret.before, T)
            /\ Preceding(transactions, T) \subseteq Preceding(ret.before, T)
            /\ Following(transactions, T) \subseteq Following(ret.before, T)


\* The entries of `before` that `after` does not hold as they were, apart
\* from their advertised sets
Left(before, after) ==
    LET held == {<<after[i].txid, after[i].transaction, after[i].timeout_at>> :
                    i \in 1..Len(after)}
    IN {info \in {before[i] : i \in 1..Len(before)} :
           <<info.txid, info.transaction, info.timeout_at>> \notin held}

C25_AdvertisedToEveryAvailablePeer ==
    /\ \A i \in 1..Len(transactions) :
           \A address \in transactions[i].advertised :
               inv_sent[transactions[i].txid][address] >= 1
    /\ Returned("tick") =>
        \A k \in 1..Len(ret.connections) :
            /\ \A i \in 1..Len(ret.advertised) :
                   /\ ret.connections[k] \in ret.advertised[i].advertised
                   /\ ret.connections[k] \in ret.before[i].advertised
                      \/ \E c \in 1..Len(ret.sent) :
                          /\ ret.sent[c].address = ret.connections[k]
                          /\ ret.sent[c].message.type = "inv"
                          /\ \E n \in 1..Len(ret.sent[c].message.inventory) :
                                 ret.sent[c].message.inventory[n] =
                                     InventoryTransaction(ret.advertised[i].txid)
            /\ \A i \in 1..Len(transactions) :
                   /\ ret.connections[k] \in transactions[i].advertised
                   /\ inv_sent[transactions[i].txid][ret.connections[k]] >= 1

\* A tick with two peers connected and an entry in the cache that one of them
\* had been advertised before: the tick lists it for the other one only.
C25_Witness ==
    /\ Returned("tick")
    /\ Len(ret.connections) = 2
    /\ Len(ret.sent) = 1
    /\ \E i \in 1..Len(transactions) :
           /\ Cardinality(ret.before[i].advertised) = 1
           /\ Cardinality(transactions[i].advertised) = 2
           /\ ret.sent[1].address \notin ret.before[i].advertised


\* Every entry of `txs` has every peer of `connections` in its advertised set
AllAdvertised(txs, connections) ==
    \A i \in 1..Len(txs) : \A k \in 1..Len(connections) :
        connections[k] \in txs[i].advertised

SentTo(sent, address) ==
    SelectSeq(sent, LAMBDA command : command.address = address)

\* No entry of `txs` has `address` in its advertised set
NeverAdvertised(txs, address) ==
    \A i \in 1..Len(txs) : address \notin txs[i].advertised

\* C27: a tick hands the channel, for a connected peer that no entry of the
\* non-empty cache was advertised to, exactly one command: an INV addressed
\* to that peer that lists every cached txid; for a peer that every entry was
\* advertised to, no command; and in general only INVs, at most one for each
\* connected peer, none for other addresses and none for a peer without an
\* entry that was not advertised to it.
C27_OneInvPerPeerInNeed ==
    Returned("tick") =>
        /\ \A c \in 1..Len(ret.sent) :
               /\ ret.sent[c].message.type = "inv"
               /\ \E k \in 1..Len(ret.connections) :
                      /\ ret.connections[k] = ret.sent[c].address
                      /\ ~AllAdvertised(ret.before, <<ret.connections[k]>>)
        /\ \A address \in Addresses : Len(SentTo(ret.sent, address)) <= 1
        /\ \A k \in 1..Len(ret.connections) :
               LET B == ret.connections[k]
               IN (ret.before # <<>> /\ NeverAdvertised(ret.before, B)) =>
                      /\ Len(SentTo(ret.sent, B)) = 1
                      /\ LET inventory == SentTo(ret.sent, B)[1].message.inventory
                         IN /\ Len(inventory) = Len(ret.before)
                            /\ \A i \in 1..Len(ret.before) :
                                   \E n \in 1..Len(inventory) :
                                       inventory[n] = InventoryTransaction(
                                                          ret.before[i].txid)

\* Peer B connects after the two entries of the cache were advertised to
\* peer A: the tick hands the channel one INV, for B, with both txids.
C27_Witness ==
    /\ Returned("tick")
    /\ Len(ret.connections) = 2
    /\ Len(ret.before) = 2
    /\ AllAdvertised(ret.before, <<ret.connections[1]>>)
    /\ NeverAdvertised(ret.before, ret.connections[2])
    /\ Len(ret.sent) = 1
    /\ ret.sent[1].address = ret.connections[2]
    /\ Len(ret.sent[1].message.inventory) = 2


\* The txids an inventory lists, in its order
listed_seq(inventory) == [n \in 1..Len(inventory) |-> inventory[n].hash]

\* C28: every INV that advertise_txids hands to the channel lists its txids
\* in the order in which the cache iterates them, the insertion order.
C28_InvInInsertionOrder ==
    Returned("tick") =>
        \A c \in 1..Len(ret.sent) :
            LET listed == listed_seq(ret.sent[c].message.inventory)
                hashes == {listed[n] : n \in 1..Len(listed)}
            IN listed = SelectSeq(txid_seq(ret.before),
                                  LAMBDA txid : txid \in hashes)

\* A tick that hands out an INV of two txids or more for a peer that no entry
\* was advertised to, and a shorter one for a peer that knew the older entries.
C28_Witness ==
    /\ Returned("tick")
    /\ \E c, d \in 1..Len(ret.sent) :
           /\ Len(ret.sent[c].message.inventory) >= 2
           /\ Len(ret.sent[c].message.inventory) = Len(ret.before)
           /\ Len(ret.sent[d].message.inventory) < Len(ret.before)


\* The number of items of a getdata message
items(message) ==
    IF "lock_times" \in DOMAIN message THEN message.lock_times
    ELSE Len(message.inventory)

\* C29: a getdata of more than MAXIMUM_TRANSACTION_PER_INV = 50,000 items is
\* answered with InvalidMessage, hands no command to the channel, not even
\* for a cached txid among its first items, and leaves the cache as it was; a
\* getdata of 50,000 items or fewer is answered with Ok.
C29_LongGetDataRejectedWhole ==
    (Returned("process_bitcoin_network_message")
        /\ ret.message.type = "getdata") =>
        IF items(ret.message) > MAXIMUM_TRANSACTION_PER_INV
        THEN /\ ret.result = [type |-> "Err", err |-> "InvalidMessage"]
             /\ ret.sent = <<>>
             /\ transactions = ret.before
        ELSE ret.result = [type |-> "Ok"]

\* A getdata of 50,001 items whose first item is a cached txid has been
\* rejected.
C29_Witness ==
    /\ Returned("process_bitcoin_network_message")
    /\ ret.message.type = "getdata"
    /\ items(ret.message) = MAXIMUM_TRANSACTION_PER_INV + 1
    /\ ret.before # <<>>
    /\ contains_key(ret.before, inventory_of_lock_times(1)[1].hash)
    /\ ret.result.type = "Err"


\* The commands a getdata request is to be answered with: walking the request
\* item by item, one Tx command to the requesting peer for every item that is
\* an Inventory::Transaction of a cached txid, with the cached transaction
RECURSIVE answers(_, _, _, _)
answers(txs, addr, inventory, n) ==
    IF n > Len(inventory) THEN <<>>
    ELSE LET inv == inventory[n]
             rest == answers(txs, addr, inventory, n + 1)
         IN IF inv.kind = "Transaction"
               /\ \E i \in 1..Len(txs) : txs[i].txid = inv.hash
            THEN <<Command(addr,
                           Tx((CHOOSE info \in {txs[i] : i \in 1..Len(txs)} :
                                   info.txid = inv.hash).transaction))>>
                 \o rest
            ELSE rest

\* The same for the long requests, whose items are all transactions: the
\* items of cached txids are picked first and answered one by one
long_answers(txs, addr, inventory) ==
    LET cached == {txs[i].txid : i \in 1..Len(txs)}
        asked == SelectSeq(inventory, LAMBDA inv : inv.hash \in cached)
    IN answers(txs, addr, asked, 1)

\* C30: an accepted getdata from peer P hands the channel, in request order,
\* exactly one Tx command for P per requested Inventory::Transaction(txid)
\* that is cached, carrying the cached transaction; txids not cached and
\* items that are no transaction give no command, a message that is no
\* getdata gives none at all, and the call returns Ok in all these cases.
C30_GetDataServedInRequestOrder ==
    Returned("process_bitcoin_network_message") =>
        IF ret.message.type = "getdata"
        THEN IF items(ret.message) <= MaxGetData
             THEN /\ ret.result = [type |-> "Ok"]
                  /\ ret.sent = answers(ret.before, ret.addr,
                                        ret.message.inventory, 1)
             ELSE items(ret.message) <= MAXIMUM_TRANSACTION_PER_INV =>
                      /\ ret.result = [type |-> "Ok"]
                      /\ ret.sent = long_answers(ret.before, ret.addr,
                                                 inventory_of(ret.message))
        ELSE /\ ret.result = [type |-> "Ok"]
             /\ ret.sent = <<>>

\* A getdata of peer 2 for a cached txid, whose entry holds the second
\* transaction with that txid, and then for a block with the same hash: one
\* Tx command, with the cached transaction.
C30_Witness ==
    /\ Returned("process_bitcoin_network_message")
    /\ ret.message.type = "getdata"
    /\ items(ret.message) = 2
    /\ ret.addr = 2
    /\ ret.message.inventory = <<InventoryTransaction(1), InventoryBlock(1)>>
    /\ Len(ret.before) = 2
    /\ ret.before[2].txid = 1
    /\ ret.before[2].transaction = 2
    /\ ret.sent = <<Command(2, Tx(2))>>


\* C31: the reap of a tick at clock value `now` removes exactly the entries
\* with timeout_at < now and keeps every entry with timeout_at >= now, one
\* with timeout_at = now among them, in their order; an entry made less than
\* TX_CACHE_TIMEOUT_PERIOD_SECS = 600 s ago is kept.
C31_ReapRemovesExactlyTheTimedOut ==
    Returned("tick") =>
        LET entries == {ret.advertised[i] : i \in 1..Len(ret.advertised)}
            due == {info \in entries : info.timeout_at < now}
            alive == {info \in entries : info.timeout_at >= now}
        IN /\ {transactions[i] : i \in 1..Len(transactions)} = alive
           /\ Len(transactions) = Cardinality(alive)
           /\ txid_seq(transactions) =
                  SelectSeq(txid_seq(ret.advertised),
                            LAMBDA txid : txid \in {info.txid : info \in alive})
           /\ \A info \in entries :
                  LET inserted_at ==
                          info.timeout_at - TX_CACHE_TIMEOUT_PERIOD_SECS
                  IN /\ inserted_at \in Instants
                     /\ inserted_at <= now
                     /\ now - inserted_at < TX_CACHE_TIMEOUT_PERIOD_SECS
                            => info \notin due /\ info \in alive

\* A tick at the very instant an entry times out has kept it, together with a
\* younger entry behind it.
C31_Witness ==
    /\ Returned("tick")
    /\ Len(ret.before) = 2
    /\ ret.before[1].timeout_at = now
    /\ ret.before[2].timeout_at > now
    /\ txid_seq(transactions) = txid_seq(ret.before)


\* C32: make_idle empties the cache whatever it held: the cache has size 0
\* and contains no txid; the tick that follows hands the channel no command,
\* and so does every later tick as long as the cache is empty, which it stays
\* under every call but send_transaction.
C32_MakeIdleEmptiesTheCache ==
    /\ Returned("make_idle") =>
           /\ Len(transactions) = 0
           /\ \A t \in Transactions : ~contains_key(transactions, txid_of(t))
    /\ (Returned("tick") /\ "emptied" \in DOMAIN ret) =>
           /\ ret.before = <<>>
           /\ ret.sent = <<>>
           /\ transactions = <<>>
    /\ (ret.op \in {"tick", "process_bitcoin_network_message", "make_idle"}
            /\ ret.before = <<>>) =>
           /\ transactions = <<>>
           /\ ret.op # "make_idle" => ret.sent = <<>>

\* make_idle has emptied a full cache and the tick that followed, with a
\* peer connected, has handed nothing to the channel.
C32_Witness ==
    /\ Returned("tick")
    /\ "emptied" \in DOMAIN ret
    /\ Len(ret.emptied) = TX_CACHE_SIZE
    /\ ret.connections # <<>>
    /\ ret.sent = <<>>
    /\ transactions = <<>>


\* The commands of a call for which the channel's send failed
FailedSends == SelectSeq(ret.sent, LAMBDA command :
                                       command.address \in ret.failing)

C34_UndeserialisableBytesDropped ==
    (Returned("send_transaction") /\ deserialize(ret.raw_tx).type = "Err") =>
        /\ transactions = ret.before
        /\ ret.evicted = <<>>
        /\ ~ret.inserted

\* Bytes that are no transaction were sent to a full cache.
C34_Witness ==
    /\ Returned("send_transaction")
    /\ deserialize(ret.raw_tx).type = "Err"
    /\ Len(ret.before) = TX_CACHE_SIZE
    /\ Len(transactions) = TX_CACHE_SIZE


\* ----------------------------------------- the header store during a slice
\* The steps of the call in progress at which add_header called the
\* validator: those whose header was not yet in the store
Validations ==
    IF "steps" \in DOMAIN ret
    THEN {s \in 1..Len(ret.steps) : ret.steps[s].res # "HeaderAlreadyExists"}
    ELSE {}

\* The tips of greatest cumulative work among `tps`
heaviest(tps) ==
    {i \in 1..Len(tps) : \A j \in 1..Len(tps) : tps[j].work <= tps[i].work}

\* C35: whenever add_header calls the validator, for any header of an
\* add_headers slice and from add_block, get_height() is the height of a tip
\* that has the greatest cumulative work among the tips at that moment.
C35_GetHeightOfHeaviestTip ==
    \A s \in Validations :
        \E i \in heaviest(ret.steps[s].before) :
            get_height(ret.steps[s].before) = ret.steps[s].before[i].height


\* The places of the peers of the commands `sent` in the list `connections`
places(sent, connections) ==
    [k \in 1..Len(sent) |->
        IF \E j \in 1..Len(connections) : connections[j] = sent[k].address
        THEN CHOOSE j \in 1..Len(connections) :
                 connections[j] = sent[k].address
        ELSE 0]

\* C36: the cache holding at most TX_CACHE_SIZE = 250 entries, no inventory
\* reaches MAXIMUM_TRANSACTION_PER_INV = 50,000 items and nothing is flushed
\* to all peers: the INVs of a tick go one by one to the peers in the order in
\* which available_connections() lists them, each to the peer of its turn
\* only, with 1 to 250 txids, all of them cached and none of them advertised
\* to that peer before.
C36_NoFlushToAllPeers ==
    /\ TX_CACHE_SIZE < MAXIMUM_TRANSACTION_PER_INV
    /\ Returned("tick") =>
           /\ Len(ret.before) <= TX_CACHE_SIZE
           /\ \A k \in 1..Len(ret.sent) :
                  LET inventory == ret.sent[k].message.inventory
                  IN /\ ret.sent[k].message.type = "inv"
                     /\ Len(inventory) \in 1..TX_CACHE_SIZE
                     /\ Len(inventory) < MAXIMUM_TRANSACTION_PER_INV
                     /\ \A n \in 1..Len(inventory) :
                            /\ inventory[n].kind = "Transaction"
                            /\ contains_key(ret.before, inventory[n].hash)
                            /\ ret.sent[k].address \notin
                                   get(ret.before, inventory[n].hash).advertised
           /\ LET at == places(ret.sent, ret.connections)
              IN /\ \A k \in 1..Len(at) : at[k] # 0
                 /\ \A k \in 1..(Len(at) - 1) : at[k] < at[k + 1]

\* A tick on a full cache with two peers connected has handed over two INVs
\* of 250 txids, one for each peer.
C36_Witness ==
    /\ Returned("tick")
    /\ Len(ret.before) = TX_CACHE_SIZE
    /\ Len(ret.connections) = 2
    /\ Len(ret.sent) = 2
    /\ Len(ret.sent[1].message.inventory) = TX_CACHE_SIZE
    /\ Len(ret.sent[2].message.inventory) = TX_CACHE_SIZE
    /\ ret.sent[1].address # ret.sent[2].address


\* The entries of `txs` that have timed out at `time`
TimedOut(txs, time) == {i \in 1..Len(txs) : txs[i].timeout_at < time}

\* C37: tick advertises before it reaps: an entry that has timed out when
\* the tick starts is listed in an INV of this tick for every available peer
\* it was not advertised to, and is not in the cache when tick returns.
C37_AdvertisedThenReaped ==
    Returned("tick") =>
        \A i \in TimedOut(ret.before, now) :
            /\ \A j \in 1..Len(ret.connections) :
                   ret.connections[j] \notin ret.before[i].advertised =>
                       \E k \in 1..Len(ret.sent) :
                           /\ ret.sent[k].address = ret.connections[j]
                           /\ ret.sent[k].message.type = "inv"
                           /\ \E n \in 1..Len(ret.sent[k].message.inventory) :
                                  ret.sent[k].message.inventory[n].hash
                                      = ret.before[i].txid
            /\ ~contains_key(transactions, ret.before[i].txid)

\* A tick that started with a timed-out entry never advertised to the peer
\* connected by then: the peer got its txid in an INV and the entry is gone.
C37_Witness ==
    /\ Returned("tick")
    /\ Len(ret.before) = 1
    /\ TimedOut(ret.before, now) = {1}
    /\ ret.before[1].advertised = {}
    /\ ret.connections = <<2>>
    /\ ret.sent = <<Command(2, Inv(<<InventoryTransaction(ret.before[1].txid)>>))>>
    /\ transactions = <<>>


\* The cache holds the entry of `txid` that times out at `timeout_at`
Cached(txid, timeout_at) ==
    \E i \in 1..Len(transactions) :
        /\ transactions[i].txid = txid
        /\ transactions[i].timeout_at = timeout_at

\* An entry is made with timeout_at = insertion time + 600 s; a tick at a
\* time up to timeout_at keeps it, a tick at a later time removes it, and
\* a getdata keeps every entry
TimeoutKept ==
    /\ (Returned("send_transaction") /\ ret.inserted) =>
           transactions[Len(transactions)].timeout_at
               = now + TX_CACHE_TIMEOUT_PERIOD_SECS
    /\ Returned("tick") =>
           \A i \in 1..Len(ret.before) :
               IF now <= ret.before[i].timeout_at
               THEN Cached(ret.before[i].txid, ret.before[i].timeout_at)
               ELSE ~contains_key(transactions, ret.before[i].txid)
    /\ Returned("process_bitcoin_network_message") =>
           txid_seq(transactions) = txid_seq(ret.before)

\* Every entry the cache holds is removed in the end
EveryEntryRemoved ==
    \A txid \in {txid_of(t) : t \in Transactions},
       time \in LiveInstants :
        Cached(txid, time + TX_CACHE_TIMEOUT_PERIOD_SECS)
            ~> ~Cached(txid, time + TX_CACHE_TIMEOUT_PERIOD_SECS)

\* C38: under a clock that does not go back, an entry made at time t is not
\* removed by a tick at a time up to t + 600 s and is absent after the first
\* tick at a later time; hence, when tick is called again and again and the
\* clock keeps advancing, every entry ever cached is removed in the end.
C38_TimedOutInTheEnd == []TimeoutKept /\ EveryEntryRemoved

\* A tick at the second after its timeout has removed an entry made one
\* period into the run, and has kept nothing else.
C38_Witness ==
    /\ Returned("tick")
    /\ now = 2 * TX_CACHE_TIMEOUT_PERIOD_SECS + 1
    /\ Len(ret.before) = 2
    /\ ret.before[1].timeout_at = TX_CACHE_TIMEOUT_PERIOD_SECS
    /\ ret.before[2].timeout_at = 2 * TX_CACHE_TIMEOUT_PERIOD_SECS
    /\ transactions = <<>>


\* The txids of the entries of a cache that record `address` as advertised
advertised_to(txs, address) ==
    {txs[i].txid : i \in {j \in 1..Len(txs) : address \in txs[j].advertised}}

\* The INVs among `sent` for `address` that list `txid`
Listing(sent, address, txid) ==
    {k \in 1..Len(sent) :
        /\ sent[k].address = address
        /\ sent[k].message.type = "inv"
        /\ \E n \in 1..Len(sent[k].message.inventory) :
               sent[k].message.inventory[n].hash = txid}

\* C39: the advertisement is remembered in the cache entry and nowhere else.
\* No call takes a peer out of the advertised set of an entry it keeps, and a
\* tick lists no txid for a peer recorded in its entry, connected all along
\* or again. An entry that send_transaction makes has an empty advertised
\* set and times out 600 s from now, also when an entry of the same
\* transaction was removed before by reap, eviction or make_idle; the next
\* tick lists its txid for every available peer, the peers that had been
\* advertised the removed entry among them.
C39_AdvertisementLivesInTheEntry ==
    /\ ret.op \in TxOps =>
           \A address \in Addresses :
               ((advertised_to(ret.before, address) \cap txids(transactions))
                    \ Recreated)
                   \subseteq advertised_to(transactions, address)
    /\ Returned("tick") =>
           \A k \in 1..Len(ret.sent) :
               ret.sent[k].message.type = "inv" =>
                   {ret.sent[k].message.inventory[n].hash :
                        n \in 1..Len(ret.sent[k].message.inventory)}
                       \cap advertised_to(ret.before, ret.sent[k].address) = {}
    /\ (Returned("send_transaction") /\ ret.inserted) =>
           LET info == transactions[Len(transactions)]
           IN /\ info.txid = txid_of(deserialize(ret.raw_tx).transaction)
              /\ info.advertised = {}
              /\ info.timeout_at = now + TX_CACHE_TIMEOUT_PERIOD_SECS
    /\ (Returned("send_transaction") /\ "removed" \in DOMAIN ret) =>
           /\ ret.inserted
           /\ transactions[Len(transactions)].txid = ret.removed.txid
    /\ (Returned("tick") /\ "removed" \in DOMAIN ret) =>
           \A j \in 1..Len(ret.connections) :
               /\ Listing(ret.sent, ret.connections[j], ret.removed.txid) # {}
               /\ contains_key(ret.advertised, ret.removed.txid)
               /\ ret.connections[j]
                      \in get(ret.advertised, ret.removed.txid).advertised

\* An entry advertised to both peers was reaped, its transaction sent again
\* a period later, and the tick that followed listed its txid for both peers
\* once more.
C39_Witness ==
    /\ Returned("tick")
    /\ "removed" \in DOMAIN ret
    /\ ret.removed.advertised = {1, 2}
    /\ ret.removed.timeout_at < now
    /\ Len(ret.connections) = 2
    /\ \A j \in 1..2 :
           Listing(ret.sent, ret.connections[j], ret.removed.txid) # {}
====
